---- MODULE Spec2Model ----
(***************************************************************************)
(* Model of the maintenance-intervention cleaner (clean_interventions.py). *)
(*                                                                         *)
(* A Python str is a tuple of one-character strings.  The accented letters *)
(* of the lookup tables are written as two-character tokens: "e'" is the   *)
(* letter e-acute and "E'" its capital.  A DataFrame cell is a record      *)
(* [t, s, n]: a str (t = "str", text s), the float NaN / missing value     *)
(* (t = "nan"), or a float64 number (t = "num") held in hundredths of an   *)
(* hour in n, which is exact for every value round(x, 2) returns within    *)
(* the bounds of the model.                                                *)
(***************************************************************************)
EXTENDS Integers, Sequences, FiniteSets, TLC

(***************************************************************************)
(* Characters and the str methods the cleaner calls                        *)
(***************************************************************************)
UpperLetters == <<"A","B","C","D","E","F","G","H","I","J","K","L","M","N","O","P","Q","R","S","T","U","V","W","X","Y","Z">> \o <<"E'">>

LowerLetters == <<"a","b","c","d","e","f","g","h","i","j","k","l","m","n","o","p","q","r","s","t","u","v","w","x","y","z">> \o <<"e'">>

DigitChars == <<"0","1","2","3","4","5","6","7","8","9">>

Whitespace == {" ", "\t"}

IsUpper(c) == \E i \in 1..Len(UpperLetters) : UpperLetters[i] = c

IsLower(c) == \E i \in 1..Len(LowerLetters) : LowerLetters[i] = c

IsCased(c) == IsUpper(c) \/ IsLower(c)

IsDigit(c) == \E i \in 1..Len(DigitChars) : DigitChars[i] = c

DigitVal(c) == (CHOOSE i \in 1..Len(DigitChars) : DigitChars[i] = c) - 1

LowerChar(c) ==
    IF IsUpper(c)
    THEN LowerLetters[CHOOSE i \in 1..Len(UpperLetters) : UpperLetters[i] = c]
    ELSE c

UpperChar(c) ==
    IF IsLower(c)
    THEN UpperLetters[CHOOSE i \in 1..Len(LowerLetters) : LowerLetters[i] = c]
    ELSE c

\* str.lower()
lower(s) == [i \in 1..Len(s) |-> LowerChar(s[i])]

\* str.upper()
upper(s) == [i \in 1..Len(s) |-> UpperChar(s[i])]

\* str.title(): a cased character is upper-cased when the character before it
\* is uncased (or it is the first), lower-cased otherwise.
title(s) ==
    [i \in 1..Len(s) |->
        IF i = 1 \/ ~IsCased(s[i - 1]) THEN UpperChar(s[i]) ELSE LowerChar(s[i])]

RECURSIVE lstrip(_)
lstrip(s) == IF s # <<>> /\ Head(s) \in Whitespace THEN lstrip(Tail(s)) ELSE s

RECURSIVE rstrip(_)
rstrip(s) ==
    IF s # <<>> /\ s[Len(s)] \in Whitespace
    THEN rstrip(SubSeq(s, 1, Len(s) - 1))
    ELSE s

\* str.strip()
strip(s) == rstrip(lstrip(s))

\* str.count(c) for a one-character c
count(s, c) == Cardinality({i \in 1..Len(s) : s[i] = c})

\* str.split(c) for a one-character separator c: the pieces between separators
RECURSIVE split(_, _)
split(s, c) ==
    IF \A i \in 1..Len(s) : s[i] # c
    THEN <<s>>
    ELSE LET k == CHOOSE i \in 1..Len(s) :
                      s[i] = c /\ \A j \in 1..(i - 1) : s[j] # c
         IN  <<SubSeq(s, 1, k - 1)>> \o split(SubSeq(s, k + 1, Len(s)), c)

\* str.replace(old, new): leftmost, non-overlapping occurrences (old non-empty)
RECURSIVE replace(_, _, _)
replace(s, old, new) ==
    IF Len(s) < Len(old)
    THEN s
    ELSE IF SubSeq(s, 1, Len(old)) = old
         THEN new \o replace(SubSeq(s, Len(old) + 1, Len(s)), old, new)
         ELSE <<Head(s)>> \o replace(Tail(s), old, new)

\* re.sub(r'\s+', ' ', s): every maximal run of whitespace becomes one space
RECURSIVE collapse_spaces(_)
collapse_spaces(s) ==
    IF s = <<>>
    THEN <<>>
    ELSE IF Head(s) \in Whitespace
         THEN <<" ">> \o collapse_spaces(lstrip(s))
         ELSE <<Head(s)>> \o collapse_spaces(Tail(s))

\* The longest prefix of s made of digits (the greedy match of \d* at the start)
RECURSIVE digit_run(_)
digit_run(s) ==
    IF s # <<>> /\ IsDigit(Head(s)) THEN <<Head(s)>> \o digit_run(Tail(s)) ELSE <<>>

\* s without its first n characters
drop(s, n) == SubSeq(s, n + 1, Len(s))

starts_with(s, p) == Len(s) >= Len(p) /\ SubSeq(s, 1, Len(p)) = p

\* whether p occurs in s as a substring (Python's `p in s`)
contains(s, p) == \E i \in 0..(Len(s) - Len(p)) : SubSeq(s, i + 1, i + Len(p)) = p

\* int(s) for a non-empty string of digits
RECURSIVE int_of(_)
int_of(s) ==
    IF s = <<>> THEN 0 ELSE 10 * int_of(SubSeq(s, 1, Len(s) - 1)) + DigitVal(s[Len(s)])

\* str(n) for a natural number n
RECURSIVE str_of_nat(_)
str_of_nat(n) ==
    IF n < 10 THEN <<DigitChars[n + 1]>>
    ELSE str_of_nat(n \div 10) \o <<DigitChars[(n % 10) + 1]>>

\* n written with at least w digits, zero-padded on the left (%02d, %04d)
RECURSIVE zero_pad(_, _)
zero_pad(s, w) == IF Len(s) >= w THEN s ELSE zero_pad(<<"0">> \o s, w)

(***************************************************************************)
(* DataFrame cells                                                         *)
(***************************************************************************)
Str(s) == [t |-> "str", s |-> s, n |-> 0]

NaN == [t |-> "nan", s |-> <<>>, n |-> 0]

Num(c) == [t |-> "num", s |-> <<>>, n |-> c]

\* pd.isna(x)
isna(v) == v.t = "nan"

\* a column of int64 (read_csv infers it for a column of whole numbers)
IntCell(k) == [t |-> "int", s |-> <<>>, n |-> k]

\* repr of a float held in hundredths: "14.0", "41.75", "13.5", "-5.0"
float_repr(c) ==
    LET a    == IF c < 0 THEN -c ELSE c
        frac == IF a % 100 = 0 THEN <<"0">>
                ELSE IF a % 10 = 0 THEN str_of_nat((a % 100) \div 10)
                ELSE zero_pad(str_of_nat(a % 100), 2)
    IN  (IF c < 0 THEN <<"-">> ELSE <<>>) \o str_of_nat(a \div 100) \o <<".">> \o frac

\* str(x) of a cell, as str(date_str), str(duration_str), ... and astype(str) give it
str(v) ==
    CASE v.t = "str" -> v.s
      [] v.t = "nan" -> <<"n","a","n">>
      [] v.t = "num" -> float_repr(v.n)
      [] v.t = "int" -> (IF v.n < 0 THEN <<"-">> ELSE <<>>)
                            \o str_of_nat(IF v.n < 0 THEN -v.n ELSE v.n)

(***************************************************************************)
(* normalize_date                                                          *)
(***************************************************************************)
IsLeap(y) == (y % 4 = 0 /\ y % 100 # 0) \/ y % 400 = 0

DaysInMonth(y, m) ==
    IF m = 2 THEN (IF IsLeap(y) THEN 29 ELSE 28)
    ELSE IF m \in {4, 6, 9, 11} THEN 30 ELSE 31

\* the date(year, month, day) constructor accepts the triple
IsValidDate(y, m, d) == y >= 1 /\ m \in 1..12 /\ d >= 1 /\ d <= DaysInMonth(y, m)

\* %Y : \d\d\d\d
match_Y(seg) == Len(seg) = 4 /\ \A i \in 1..4 : IsDigit(seg[i])

\* %m : 1[0-2]|0[1-9]|[1-9]
match_m(seg) ==
    \/ Len(seg) = 2 /\ seg[1] = "1" /\ seg[2] \in {"0", "1", "2"}
    \/ Len(seg) = 2 /\ seg[1] = "0" /\ IsDigit(seg[2]) /\ seg[2] # "0"
    \/ Len(seg) = 1 /\ IsDigit(seg[1]) /\ seg[1] # "0"

\* %d : 3[0-1]|[1-2]\d|0[1-9]|[1-9]| [1-9]
match_d(seg) ==
    \/ Len(seg) = 2 /\ seg[1] = "3" /\ seg[2] \in {"0", "1"}
    \/ Len(seg) = 2 /\ seg[1] \in {"1", "2"} /\ IsDigit(seg[2])
    \/ Len(seg) = 2 /\ seg[1] = "0" /\ IsDigit(seg[2]) /\ seg[2] # "0"
    \/ Len(seg) = 1 /\ IsDigit(seg[1]) /\ seg[1] # "0"
    \/ Len(seg) = 2 /\ seg[1] = " " /\ IsDigit(seg[2]) /\ seg[2] # "0"

\* The formats of normalize_date, in the order the loop tries them.  Each is
\* three directives joined by one separator character; ymd tells whether the
\* year comes first (%Y sep %m sep %d) or last (%d sep %m sep %Y).
formats ==
    << [sep |-> "-", ymd |-> TRUE],     \* '%Y-%m-%d'
       [sep |-> "-", ymd |-> FALSE],    \* '%d-%m-%Y'
       [sep |-> "/", ymd |-> FALSE],    \* '%d/%m/%Y'
       [sep |-> ".", ymd |-> FALSE],    \* '%d.%m.%Y'
       [sep |-> "/", ymd |-> TRUE] >>   \* '%Y/%m/%d'

NoDate == [ok |-> FALSE, y |-> 0, m |-> 0, d |-> 0]

\* A faulty strptime: in the day-first formats it reads the first piece as the
\* month and the second as the day.
strptime_month_first(s, fmt) ==
    LET seg == split(s, fmt.sep)
        ys  == IF fmt.ymd THEN seg[1] ELSE seg[3]
        ms  == IF fmt.ymd THEN seg[2] ELSE seg[1]
        ds  == IF fmt.ymd THEN seg[3] ELSE seg[2]
    IN  IF Len(seg) # 3 THEN NoDate
        ELSE IF ~(match_Y(ys) /\ match_m(ms) /\ match_d(ds)) THEN NoDate
        ELSE IF IsValidDate(int_of(ys), int_of(ms), int_of(lstrip(ds)))
             THEN [ok |-> TRUE, y |-> int_of(ys), m |-> int_of(ms),
                   d |-> int_of(lstrip(ds))]
             ELSE NoDate

\* datetime.strptime(s, fmt): the directives must match the pieces between the
\* separators, nothing may remain after the last one, and the triple must be
\* a date of the calendar; ok = FALSE stands for the ValueError.
strptime(s, fmt) ==
    LET seg  == split(s, fmt.sep)
        ys   == IF fmt.ymd THEN seg[1] ELSE seg[3]
        ds   == IF fmt.ymd THEN seg[3] ELSE seg[1]
    IN  IF Len(seg) # 3 THEN NoDate
        ELSE IF ~(match_Y(ys) /\ match_m(seg[2]) /\ match_d(ds)) THEN NoDate
        ELSE LET y == int_of(ys)
                 m == int_of(seg[2])
                 d == int_of(lstrip(ds))
             IN  IF IsValidDate(y, m, d)
                 THEN [ok |-> TRUE, y |-> y, m |-> m, d |-> d]
                 ELSE NoDate

\* dt.strftime('%Y-%m-%d')
strftime(dt) ==
    zero_pad(str_of_nat(dt.y), 4) \o <<"-">> \o zero_pad(str_of_nat(dt.m), 2)
        \o <<"-">> \o zero_pad(str_of_nat(dt.d), 2)

\* A faulty loop: a string in none of the formats becomes the missing value.
RECURSIVE try_formats_null(_, _)
try_formats_null(s, k) ==
    IF k > Len(formats)
    THEN NaN
    ELSE IF strptime(s, formats[k]).ok
         THEN Str(strftime(strptime(s, formats[k])))
         ELSE try_formats_null(s, k + 1)

\* the loop over formats, from format number k on
RECURSIVE try_formats(_, _)
try_formats(s, k) ==
    IF k > Len(formats)
    THEN Str(s)
    ELSE LET dt == strptime(s, formats[k])
         IN  IF dt.ok THEN Str(strftime(dt)) ELSE try_formats(s, k + 1)

normalize_date(date_str) ==
    IF isna(date_str) THEN date_str ELSE try_formats(strip(str(date_str)), 1)

(***************************************************************************)
(* normalize_duration                                                      *)
(***************************************************************************)
NoFloat == [ok |-> FALSE, nan |-> FALSE, c |-> 0]

\* The digits of a fraction, rounded to hundredths.  A fraction of exactly
\* half a hundredth is sent to the even neighbour here; in Python it depends
\* on the binary value of the float, and no input text of the model has one.
round_frac(fr) ==
    LET p    == fr \o <<"0","0","0">>
        base == 10 * DigitVal(p[1]) + DigitVal(p[2])
        rest == drop(fr, 2)
        tail == drop(rest, 1)
        more == \E i \in 1..Len(tail) : tail[i] # "0"
        up   == rest # <<>> /\ (DigitVal(rest[1]) > 5
                                \/ (DigitVal(rest[1]) = 5 /\ (more \/ base % 2 = 1)))
    IN  base + (IF up THEN 1 ELSE 0)

\* float(s) followed by round(x, 2), for the literals of the model's inputs:
\* an optional sign, then digits with an optional fraction, or "nan" in any
\* letter case.  ok = FALSE stands for the ValueError.
parse_float(s0) ==
    LET s    == strip(s0)
        neg  == s # <<>> /\ Head(s) = "-"
        u    == IF s # <<>> /\ Head(s) \in {"-", "+"} THEN Tail(s) ELSE s
        ip   == digit_run(u)
        r    == drop(u, Len(ip))
        fr   == IF r # <<>> /\ Head(r) = "." THEN digit_run(Tail(r)) ELSE <<>>
        done == IF r # <<>> /\ Head(r) = "." THEN Len(fr) + 1 = Len(r) ELSE r = <<>>
        mag  == 100 * int_of(ip) + round_frac(fr)
    IN  IF lower(u) = <<"n","a","n">> THEN [ok |-> TRUE, nan |-> TRUE, c |-> 0]
        ELSE IF done /\ (ip # <<>> \/ fr # <<>>)
             THEN [ok |-> TRUE, nan |-> FALSE, c |-> IF neg THEN -mag ELSE mag]
             ELSE NoFloat

\* the cell a successful float conversion returns
float_cell(f) == IF f.nan THEN NaN ELSE Num(f.c)

\* A faulty conversion: the minutes taken as hundredths of an hour.
hours_minutes_decimal(h, m) == 100 * int_of(h) + int_of(m)

\* round(hours + minutes / 60, 2) in hundredths; minutes * 100 / 60 is never
\* exactly half-way between two integers
hours_minutes(h, m) == 100 * int_of(h) + ((10 * int_of(m) + 3) \div 6)

NoMatch == [ok |-> FALSE, h |-> <<>>, m |-> <<>>]

\* re.match(r'(\d+)h(\d+)', s)
match_h(s) ==
    LET h == digit_run(s)
        r == drop(s, Len(h))
        m == IF r # <<>> /\ Head(r) = "h" THEN digit_run(Tail(r)) ELSE <<>>
    IN  IF h # <<>> /\ m # <<>> THEN [ok |-> TRUE, h |-> h, m |-> m] ELSE NoMatch

\* re.match(r'(\d+)\s*heures?\s*(\d+)\s*min', s)
match_heures(s) ==
    LET h  == digit_run(s)
        r1 == lstrip(drop(s, Len(h)))
        r2 == IF starts_with(r1, <<"h","e","u","r","e","s">>) THEN drop(r1, 6) ELSE drop(r1, 5)
        r3 == lstrip(r2)
        m  == digit_run(r3)
        r4 == lstrip(drop(r3, Len(m)))
    IN  IF h # <<>> /\ starts_with(r1, <<"h","e","u","r","e">>) /\ m # <<>> /\ starts_with(r4, <<"m","i","n">>)
        THEN [ok |-> TRUE, h |-> h, m |-> m]
        ELSE NoMatch

\* re.match(r'(\d+):(\d+)', s)
match_colon(s) ==
    LET h == digit_run(s)
        r == drop(s, Len(h))
        m == IF r # <<>> /\ Head(r) = ":" THEN digit_run(Tail(r)) ELSE <<>>
    IN  IF h # <<>> /\ m # <<>> THEN [ok |-> TRUE, h |-> h, m |-> m] ELSE NoMatch

\* lines 103-108: a string with more than one '.' whose middle piece is "0"
\* loses that piece ("33.0.25" -> "33.25")
is_double_point(s) ==
    count(s, ".") > 1 /\ Len(split(s, ".")) = 3 /\ split(s, ".")[2] = <<"0">>

repair_double_point(s) ==
    IF is_double_point(s) THEN split(s, ".")[1] \o <<".">> \o split(s, ".")[3] ELSE s

correction_entry(s) == <<"C","o","r","r","e","c","t","i","o","n"," ","d","u","r","e'","e"," ","i","n","v","a","l","i","d","e"," ",":"," ">> \o s

warning_entry(s) == <<"[","W","A","R","N","I","N","G","]"," ","D","u","r","e","e"," ","n","o","n"," ","r","e","c","o","n","n","u","e"," ",":"," ">> \o s

\* The strategies after the first, in the order of the code: 'h', 'heures',
\* ':', 'h' again, then the decimal comma.
duration_fallback(s) ==
    IF match_h(s).ok THEN Num(hours_minutes(match_h(s).h, match_h(s).m))
    ELSE IF match_heures(s).ok
         THEN Num(hours_minutes(match_heures(s).h, match_heures(s).m))
    ELSE IF match_colon(s).ok
         THEN Num(hours_minutes(match_colon(s).h, match_colon(s).m))
    ELSE IF match_h(replace(s, <<"h">>, <<"h">>)).ok
         THEN Num(hours_minutes(match_h(s).h, match_h(s).m))
    ELSE IF parse_float(replace(s, <<",">>, <<".">>)).ok
         THEN float_cell(parse_float(replace(s, <<",">>, <<".">>)))
    ELSE Num(0)

\* whether every strategy fails on s (the except branch of lines 145-147)
duration_unrecognised(s) ==
    /\ ~parse_float(s).ok
    /\ ~match_h(s).ok
    /\ ~match_heures(s).ok
    /\ ~match_colon(s).ok
    /\ ~parse_float(replace(s, <<",">>, <<".">>)).ok

\* normalize_duration returns the value; log is what it appends to changes_log
normalize_duration(duration_str) ==
    IF isna(duration_str)
    THEN [val |-> Num(0), log |-> <<>>]
    ELSE LET s0 == strip(str(duration_str))
             s  == repair_double_point(s0)
             l1 == IF is_double_point(s0) THEN <<correction_entry(s)>> ELSE <<>>
         IN  IF parse_float(s).ok
             THEN [val |-> float_cell(parse_float(s)), log |-> l1]
             ELSE [val |-> duration_fallback(s),
                   log |-> l1 \o (IF duration_unrecognised(s)
                                  THEN <<warning_entry(s)>> ELSE <<>>)]

(***************************************************************************)
(* normalize_technician, normalize_fault_type, normalize_parts             *)
(***************************************************************************)
\* self.technician_mapping: <<alias, canonical name>>, in the order of the dict
technician_mapping ==
    << <<<<"m","a","r","i","e"," ","s","i","m","o","n">>,      <<"M","a","r","i","e"," ","S","i","m","o","n">>>>,
       <<<<"m","a","r","i","e"," ","S","I","M","O","N">>,      <<"M","a","r","i","e"," ","S","i","m","o","n">>>>,
       <<<<"s","o","p","h","i","e"," ","b","e","r","n","a","r","d">>,   <<"S","o","p","h","i","e"," ","B","e","r","n","a","r","d">>>>,
       <<<<"s",".","b","e","r","n","a","r","d">>,        <<"S","o","p","h","i","e"," ","B","e","r","n","a","r","d">>>>,
       <<<<"S",".","B","e","r","n","a","r","d">>,        <<"S","o","p","h","i","e"," ","B","e","r","n","a","r","d">>>>,
       <<<<"a","l","e","x","a","n","d","r","e"," ","p","e","t","i","t">>,  <<"A","l","e","x","a","n","d","r","e"," ","P","e","t","i","t">>>>,
       <<<<"a","."," ","p","e","t","i","t">>,         <<"A","l","e","x","a","n","d","r","e"," ","P","e","t","i","t">>>>,
       <<<<"A","."," ","P","E","T","I","T">>,         <<"A","l","e","x","a","n","d","r","e"," ","P","e","t","i","t">>>>,
       <<<<"p","i","e","r","r","e"," ","r","o","d","r","i","g","u","e","z">>, <<"P","i","e","r","r","e"," ","R","o","d","r","i","g","u","e","z">>>>,
       <<<<"r","o","d","r","i","g","u","e","z">>,        <<"P","i","e","r","r","e"," ","R","o","d","r","i","g","u","e","z">>>>,
       <<<<"R","O","D","R","I","G","U","E","Z">>,        <<"P","i","e","r","r","e"," ","R","o","d","r","i","g","u","e","z">>>>,
       <<<<"n","i","c","o","l","a","s"," ","m","i","c","h","e","l">>,   <<"N","i","c","o","l","a","s"," ","M","i","c","h","e","l">>>>,
       <<<<"n",".","m","i","c","h","e","l">>,         <<"N","i","c","o","l","a","s"," ","M","i","c","h","e","l">>>>,
       <<<<"N",".","M","i","c","h","e","l">>,         <<"N","i","c","o","l","a","s"," ","M","i","c","h","e","l">>>>,
       <<<<"t","h","o","m","a","s"," ","l","a","u","r","e","n","t">>,   <<"T","h","o","m","a","s"," ","L","a","u","r","e","n","t">>>>,
       <<<<"t",".","l","a","u","r","e","n","t">>,        <<"T","h","o","m","a","s"," ","L","a","u","r","e","n","t">>>>,
       <<<<"T",".","L","a","u","r","e","n","t">>,        <<"T","h","o","m","a","s"," ","L","a","u","r","e","n","t">>>>,
       <<<<"j","u","l","i","e"," ","m","o","r","e","a","u">>,     <<"J","u","l","i","e"," ","M","o","r","e","a","u">>>>,
       <<<<"j","u","l","i","e"," ","M","O","R","E","A","U">>,     <<"J","u","l","i","e"," ","M","o","r","e","a","u">>>>,
       <<<<"m","a","r","t","i","n"," ","d","u","p","o","n","t">>,    <<"M","a","r","t","i","n"," ","D","u","p","o","n","t">>>>,
       <<<<"m","."," ","d","u","p","o","n","t">>,        <<"M","a","r","t","i","n"," ","D","u","p","o","n","t">>>>,
       <<<<"M","."," ","D","u","p","o","n","t">>,        <<"M","a","r","t","i","n"," ","D","u","p","o","n","t">>>>,
       <<<<"i","s","a","b","e","l","l","e"," ","g","a","r","c","i","a">>,  <<"I","s","a","b","e","l","l","e"," ","G","a","r","c","i","a">>>>,
       <<<<"i","."," ","g","a","r","c","i","a">>,        <<"I","s","a","b","e","l","l","e"," ","G","a","r","c","i","a">>>>,
       <<<<"I","."," ","G","a","r","c","i","a">>,        <<"I","s","a","b","e","l","l","e"," ","G","a","r","c","i","a">>>>,
       <<<<"c","e'","l","i","n","e"," ","l","e","f","e","b","v","r","e">>,  <<"C","e'","l","i","n","e"," ","L","e","f","e","b","v","r","e">>>>,
       <<<<"c","e","l","i","n","e"," ","l","e","f","e","b","v","r","e">>,  <<"C","e'","l","i","n","e"," ","L","e","f","e","b","v","r","e">>>>,
       <<<<"C","e","l","i","n","e"," ","L","e","f","e","b","v","r","e">>,  <<"C","e'","l","i","n","e"," ","L","e","f","e","b","v","r","e">>>> >>

\* the local dict fault_mapping of normalize_fault_type
fault_mapping ==
    << <<<<"s","u","r","c","h","a","u","f","f","e">>,           <<"S","u","r","c","h","a","u","f","f","e">>>>,
       <<<<"S","U","R","C","H","A","U","F","F","E">>,           <<"S","u","r","c","h","a","u","f","f","e">>>>,
       <<<<"d","e'","f","a","u","t"," ","c","a","p","t","e","u","r">>,       <<"D","e'","f","a","u","t"," ","C","a","p","t","e","u","r">>>>,
       <<<<"d","e","f","a","u","t"," ","c","a","p","t","e","u","r">>,       <<"D","e'","f","a","u","t"," ","C","a","p","t","e","u","r">>>>,
       <<<<"D","e'","f","a","u","t"," ","c","a","p","t","e","u","r">>,       <<"D","e'","f","a","u","t"," ","C","a","p","t","e","u","r">>>>,
       <<<<"p","a","n","n","e"," ","e","l","e","c","t","r","i","q","u","e">>,     <<"P","a","n","n","e"," ","E'","l","e","c","t","r","i","q","u","e">>>>,
       <<<<"p","a","n","n","e"," ","e'","l","e","c","t","r","i","q","u","e">>,     <<"P","a","n","n","e"," ","E'","l","e","c","t","r","i","q","u","e">>>>,
       <<<<"P","a","n","n","e"," ","E","l","e","c","t","r","i","q","u","e">>,     <<"P","a","n","n","e"," ","E'","l","e","c","t","r","i","q","u","e">>>>,
       <<<<"P","A","N","N","E"," ","E","L","E","C","T","R","I","Q","U","E">>,     <<"P","a","n","n","e"," ","E'","l","e","c","t","r","i","q","u","e">>>>,
       <<<<"p","a","n","n","e"," ","h","y","d","r","a","u","l","i","q","u","e">>,    <<"P","a","n","n","e"," ","H","y","d","r","a","u","l","i","q","u","e">>>>,
       <<<<"P","A","N","N","E"," ","H","Y","D","R","A","U","L","I","Q","U","E">>,    <<"P","a","n","n","e"," ","H","y","d","r","a","u","l","i","q","u","e">>>>,
       <<<<"p","a","n","n","e"," ","p","n","e","u","m","a","t","i","q","u","e">>,    <<"P","a","n","n","e"," ","P","n","e","u","m","a","t","i","q","u","e">>>>,
       <<<<"P","A","N","N","E"," ","P","N","E","U","M","A","T","I","Q","U","E">>,    <<"P","a","n","n","e"," ","P","n","e","u","m","a","t","i","q","u","e">>>>,
       <<<<"p","a","n","n","e"," ","m","e'","c","a","n","i","q","u","e">>,      <<"P","a","n","n","e"," ","M","e'","c","a","n","i","q","u","e">>>>,
       <<<<"p","a","n","n","e"," ","m","e","c","a","n","i","q","u","e">>,      <<"P","a","n","n","e"," ","M","e'","c","a","n","i","q","u","e">>>>,
       <<<<"P","a","n","n","e"," ","M","e","c","a","n","i","q","u","e">>,      <<"P","a","n","n","e"," ","M","e'","c","a","n","i","q","u","e">>>>,
       <<<<"v","i","b","r","a","t","i","o","n"," ","a","n","o","r","m","a","l","e">>,   <<"V","i","b","r","a","t","i","o","n","s"," ","A","n","o","r","m","a","l","e","s">>>>,
       <<<<"v","i","b","r","a","t","i","o","n","s"," ","a","n","o","r","m","a","l","e","s">>, <<"V","i","b","r","a","t","i","o","n","s"," ","A","n","o","r","m","a","l","e","s">>>>,
       <<<<"V","i","b","r","a","t","i","o","n"," ","A","n","o","r","m","a","l","e">>,   <<"V","i","b","r","a","t","i","o","n","s"," ","A","n","o","r","m","a","l","e","s">>>>,
       <<<<"u","s","u","r","e"," ","n","o","r","m","a","l","e">>,        <<"U","s","u","r","e"," ","N","o","r","m","a","l","e">>>>,
       <<<<"U","s","u","r","e"," ","n","o","r","m","a","l","e">>,        <<"U","s","u","r","e"," ","N","o","r","m","a","l","e">>>>,
       <<<<"u","s","u","r","e"," ","N","o","r","m","a","l","e">>,        <<"U","s","u","r","e"," ","N","o","r","m","a","l","e">>>>,
       <<<<"f","u","i","t","e">>,                <<"F","u","i","t","e">>>>,
       <<<<"f","u","i","t","e","s">>,               <<"F","u","i","t","e">>>>,
       <<<<"F","u","i","t","e","s">>,               <<"F","u","i","t","e">>>>,
       <<<<"d","e'","f","a","u","t"," ","l","u","b","r","i","f","i","c","a","t","i","o","n">>, <<"D","e'","f","a","u","t"," ","L","u","b","r","i","f","i","c","a","t","i","o","n">>>>,
       <<<<"d","e","f","a","u","t"," ","l","u","b","r","i","f","i","c","a","t","i","o","n">>, <<"D","e'","f","a","u","t"," ","L","u","b","r","i","f","i","c","a","t","i","o","n">>>>,
       <<<<"D","e","f","."," ","L","u","b","r","i","f","i","c","a","t","i","o","n">>,   <<"D","e'","f","a","u","t"," ","L","u","b","r","i","f","i","c","a","t","i","o","n">>>>,
       <<<<"D","e'","f","a","u","t"," ","L","u","b","r","i","f","i","c","a","t","i","o","n">>, <<"D","e'","f","a","u","t"," ","L","u","b","r","i","f","i","c","a","t","i","o","n">>>> >>

\* `key in mapping`
has_key(mapping, key) == \E i \in 1..Len(mapping) : mapping[i][1] = key

\* `mapping[key]`
lookup(mapping, key) ==
    mapping[CHOOSE i \in 1..Len(mapping) : mapping[i][1] = key][2]

normalize_technician(name) ==
    IF isna(name)
    THEN name
    ELSE LET s == strip(str(name))
         IN  IF has_key(technician_mapping, lower(s))
             THEN Str(lookup(technician_mapping, lower(s)))
             ELSE Str(title(s))

normalize_fault_type(fault_type) ==
    IF isna(fault_type) \/ fault_type = Str(<<>>)
    THEN Str(<<>>)
    ELSE LET s == strip(str(fault_type))
         IN  IF has_key(fault_mapping, lower(s))
             THEN Str(lookup(fault_mapping, lower(s)))
             ELSE Str(title(s))

\* the values normalize_parts takes for "no part" (line 220)
empty_parts == {<<>>, <<"N","/","A">>, <<"-">>, <<"n","/","a">>, <<"N","A">>}

Aucune == <<"A","u","c","u","n","e">>

normalize_parts(parts_str) ==
    IF isna(parts_str)
    THEN Str(Aucune)
    ELSE LET s0 == strip(str(parts_str))
             s1 == replace(s0, <<";">>, <<",">>)
             s2 == replace(s1, <<" ","/"," ">>, <<","," ">>)
             s3 == replace(s2, <<" ","-"," ">>, <<","," ">>)
             s4 == replace(s3, <<" ","|"," ">>, <<","," ">>)
         IN  IF s0 \in empty_parts THEN Str(Aucune) ELSE Str(collapse_spaces(s4))

(***************************************************************************)
(* The input file and load_data                                            *)
(***************************************************************************)
\* The strings pd.read_csv reads as a missing value (its default na_values)
na_values ==
    { <<>>, <<"#","N","/","A">>, <<"#","N","/","A"," ","N","/","A">>, <<"#","N","A">>, <<"-","1",".","#","I","N","D">>, <<"-","1",".","#","Q","N","A","N">>, <<"-","N","a","N">>,
      <<"-","n","a","n">>, <<"1",".","#","I","N","D">>, <<"1",".","#","Q","N","A","N">>, <<"<","N","A",">">>, <<"N","/","A">>, <<"N","A">>, <<"N","U","L","L">>,
      <<"N","a","N">>, <<"N","o","n","e">>, <<"n","/","a">>, <<"n","a","n">>, <<"n","u","l","l">> }

\* a text cell read into a column of dtype object
object_cell(text) == IF text \in na_values THEN NaN ELSE Str(text)

\* whole numbers and plain decimals: what read_csv converts to int64 / float64
is_plain_int(text) ==
    LET u == IF text # <<>> /\ Head(text) = "-" THEN Tail(text) ELSE text
    IN  u # <<>> /\ digit_run(u) = u

is_plain_number(text) ==
    LET u  == IF text # <<>> /\ Head(text) = "-" THEN Tail(text) ELSE text
        ip == digit_run(u)
        r  == drop(u, Len(ip))
    IN  \/ is_plain_int(text)
        \/ ip # <<>> /\ Len(r) >= 2 /\ Head(r) = "." /\ digit_run(Tail(r)) = Tail(r)

\* The dtype read_csv infers for the duration column: int64 when every cell is
\* a whole number, float64 when every cell is a number or missing, else object.
duration_cell(text, column) ==
    IF \A i \in 1..Len(column) : is_plain_int(column[i])
    THEN IntCell(parse_float(text).c \div 100)
    ELSE IF \A i \in 1..Len(column) :
                column[i] \in na_values \/ is_plain_number(column[i])
         THEN (IF text \in na_values THEN NaN ELSE Num(parse_float(text).c))
         ELSE object_cell(text)

\* pd.read_csv(self.input_file): one record per line of the file
read_csv(file) ==
    LET durations == [i \in 1..Len(file) |-> file[i].Duree_Arret_h]
    IN  [i \in 1..Len(file) |->
            [ID_Intervention |-> object_cell(file[i].ID_Intervention),
             ID_Machine      |-> object_cell(file[i].ID_Machine),
             Date            |-> object_cell(file[i].Date),
             Duree_Arret_h   |-> duration_cell(file[i].Duree_Arret_h, durations),
             Technicien      |-> object_cell(file[i].Technicien),
             Type_Panne      |-> object_cell(file[i].Type_Panne),
             Pieces_Changees |-> object_cell(file[i].Pieces_Changees)]]

(***************************************************************************)
(* clean_data                                                              *)
(***************************************************************************)
\* elementwise != of two cells of a Series: NaN differs from everything,
\* itself included
ne(a, b) == isna(a) \/ isna(b) \/ a # b

\* (original != new).sum() over one column
count_changes(old, new, col) ==
    Cardinality({i \in 1..Len(old) : ne(old[i][col], new[i][col])})

\* (original.astype(str) != new.astype(str)).sum() for the durations
count_duration_changes(old, new) ==
    Cardinality({i \in 1..Len(old) :
                    str(old[i].Duree_Arret_h) # str(new[i].Duree_Arret_h)})

\* what Series.apply(self.normalize_duration) appends to changes_log, row by row
RECURSIVE duration_log(_, _)
duration_log(frame, i) ==
    IF i > Len(frame)
    THEN <<>>
    ELSE normalize_duration(frame[i].Duree_Arret_h).log \o duration_log(frame, i + 1)

\* A faulty cleaning: the normalized records come out in reverse order.
cleaned_frame_reordered(frame) ==
    [i \in 1..Len(frame) |->
        LET r == frame[Len(frame) + 1 - i]
        IN  [ID_Intervention |-> r.ID_Intervention,
             ID_Machine      |-> r.ID_Machine,
             Date            |-> normalize_date(r.Date),
             Duree_Arret_h   |-> normalize_duration(r.Duree_Arret_h).val,
             Technicien      |-> normalize_technician(r.Technicien),
             Type_Panne      |-> normalize_fault_type(r.Type_Panne),
             Pieces_Changees |-> normalize_parts(r.Pieces_Changees)]]

\* the frame after the five Series.apply calls of clean_data
cleaned_frame(frame) ==
    [i \in 1..Len(frame) |->
        [ID_Intervention |-> frame[i].ID_Intervention,
         ID_Machine      |-> frame[i].ID_Machine,
         Date            |-> normalize_date(frame[i].Date),
         Duree_Arret_h   |-> normalize_duration(frame[i].Duree_Arret_h).val,
         Technicien      |-> normalize_technician(frame[i].Technicien),
         Type_Panne      |-> normalize_fault_type(frame[i].Type_Panne),
         Pieces_Changees |-> normalize_parts(frame[i].Pieces_Changees)]]

NoChanges ==
    [dates |-> 0, durations |-> 0, technicians |-> 0, fault_types |-> 0, parts |-> 0]

(***************************************************************************)
(* Input files of the model                                                *)
(***************************************************************************)
MaxRows == 2

MaxRuns == 2

\* the five ways of writing a date that normalize_date lists, zero-padded
DateForms == 1..Len(formats)

format_input(f, y, m, d) ==
    LET ys  == zero_pad(str_of_nat(y), 4)
        ms  == zero_pad(str_of_nat(m), 2)
        ds  == zero_pad(str_of_nat(d), 2)
        sep == <<formats[f].sep>>
    IN  IF formats[f].ymd THEN ys \o sep \o ms \o sep \o ds
        ELSE ds \o sep \o ms \o sep \o ys

Years == {1900, 2000, 2023, 2024}

Months == {1, 2, 4, 12}

Days == {1, 12, 28, 29, 30, 31}

\* every day/month/year combination, the impossible ones (30.02., 31.04.,
\* 29.02. of a common year) included
FormattedDates ==
    {format_input(f, y, m, d) : f \in DateForms, y \in Years, m \in Months, d \in Days}

OtherDates ==
    { <<"n","o","t","-","a","-","d","a","t","e">>, <<"2","0","2","4","-","1","3","-","0","1">>, <<" ","2","0","2","4","-","0","1","-","1","5"," ">>, <<"1","5","-","1","-","2","0","2","4">>, <<"5","/","1","/","2","0","2","4">>,
      <<"2","0","2","4","-","0","1","-"," ","5">>, <<"2","0","2","4","/","1","/","5">>, <<"0","1",".","0","2",".","2","4">>, <<"2","0","2","4","-","0","1","-","1","5","T","1","0",":","0","0">>, <<"2","0","2","4","0","1","1","5">>,
      <<"1","5","-","0","1","/","2","0","2","4">>, <<"2","0","2","4","-","0","0","-","1","0">>, <<"0","0","/","0","1","/","2","0","2","4">>, <<"1","5"," ","j","a","n","v","i","e","r"," ","2","0","2","4">>, <<>> }

DateTexts == FormattedDates \cup OtherDates

DurationTexts ==
    { <<"1","4",".","0","0">>, <<"4","1","h","4","5">>, <<"1","3"," ","h","e","u","r","e","s"," ","3","0"," ","m","i","n">>, <<"9",":","4","5">>, <<"3","3",".","0",".","2","5">>, <<"g","a","r","b","a","g","e">>,
      <<"-","5">>, <<"N","A","N">>, <<"N","a","n">>, <<" ","9",":","4","5"," ">>, <<"8","h","0","0">>, <<"3","4","h","0","0">>, <<"2",",","5">>, <<"1",".","5">>,
      <<"0">>, <<"1","2">>, <<"4","1","h"," ","4","5">>, <<"1","h","3","0","m">>, <<"1","2"," ","h","e","u","r","e"," ","1","5"," ","m","i","n">>, <<"3","h","e","u","r","e","s","5","m","i","n">>,
      <<"a","b","c",".","0",".","d","e","f">>, <<"7",".","0",".","5">>, <<"1","0",":","5">>, <<"-","2","h","3","0">>, <<"1",".","0",".","2",".","3">>, <<"9","9","h","9","9">>,
      <<"2"," ","h","e","u","r","e","s">>, <<"-","1",",","2","5">>, <<"1","2",".","3","4","6">>, <<"h","3","0">>, <<"5"," ","h"," ","1","0">>, <<>> }

\* the aliases of a table, as written and in upper, lower and title case
Aliases(mapping) ==
    UNION {{mapping[i][1], upper(mapping[i][1]), lower(mapping[i][1]),
            title(mapping[i][1])} : i \in 1..Len(mapping)}

OtherTechnicians ==
    { <<"a",".","p","e","t","i","t">>, <<"m",".","d","u","p","o","n","t">>, <<"i",".","g","a","r","c","i","a">>, <<"s","."," ","b","e","r","n","a","r","d">>, <<"n","."," ","m","i","c","h","e","l">>,
      <<"j","e","a","n"," ","v","a","l","j","e","a","n">>, <<" ","m","a","r","i","e"," ","s","i","m","o","n"," ">>, <<"M","a","r","i","e"," "," ","S","i","m","o","n">>, <<"S","I","M","O","N"," ","M","a","r","i","e">>,
      <<"o","'","b","r","i","e","n">>, <<>> }

TechnicianTexts == Aliases(technician_mapping) \cup OtherTechnicians

OtherFaults ==
    { <<"b","r","u","i","t"," ","a","n","o","r","m","a","l">>, <<" ","s","u","r","c","h","a","u","f","f","e"," ">>, <<"d","e","f","."," ","l","u","b","r","i","f","i","c","a","t","i","o","n">>, <<"c","o","u","r","t","-","c","i","r","c","u","i","t">>,
      <<" "," "," ">>, <<"p","a","n","n","e"," "," ","h","y","d","r","a","u","l","i","q","u","e">>, <<>> }

FaultTexts == Aliases(fault_mapping) \cup OtherFaults

PartsTexts ==
    { <<"R","o","u","l","e","m","e","n","t">>, <<"R","o","u","l","e","m","e","n","t",";","C","o","u","r","r","o","i","e">>, <<"R","o","u","l","e","m","e","n","t"," ","/"," ","C","o","u","r","r","o","i","e">>,
      <<"R","o","u","l","e","m","e","n","t"," ","-"," ","C","o","u","r","r","o","i","e">>, <<"R","o","u","l","e","m","e","n","t"," ","|"," ","C","o","u","r","r","o","i","e">>, <<"R","o","u","l","e","m","e","n","t",","," ","C","o","u","r","r","o","i","e">>,
      <<"-">>, <<"N","/","A">>, <<"N","A">>, <<"n","/","a">>, <<"A","u","c","u","n","e">>, <<"a","u","c","u","n","e">>, <<"A","U","C","U","N","E">>, <<"a",";",";","b">>,
      <<"a",";"," ">>, <<"a"," "," ","/"," "," ","b">>, <<"a","\t","/","\t","b">>, <<"a"," ","/"," ","/"," ","b">>, <<"a",";","b"," ","/"," ","c"," ","|"," ","d"," ","-"," ","e">>,
      <<"F","i","l","t","r","e"," "," ","h","u","i","l","e">>, <<" ","-"," ">>, <<"-","-">>, <<"a","/","b">>, <<"J","o","i","n","t","-","t","o","r","i","q","u","e">>, <<>> }

Row(machine, date, duration, technician, fault, parts) ==
    [ID_Machine |-> machine, Date |-> date, Duree_Arret_h |-> duration,
     Technicien |-> technician, Type_Panne |-> fault, Pieces_Changees |-> parts]

BaseRow ==
    Row(<<"M","1">>, <<"2","0","2","4","-","0","2","-","1","2">>, <<"1","4",".","0","0">>, <<"m","a","r","i","e"," ","s","i","m","o","n">>, <<"s","u","r","c","h","a","u","f","f","e">>, <<"R","o","u","l","e","m","e","n","t">>)

\* rows that differ from BaseRow in one field, over all the texts of that field
FieldRows ==
    {[BaseRow EXCEPT !.Date = x] : x \in DateTexts}
        \cup {[BaseRow EXCEPT !.Duree_Arret_h = x] : x \in DurationTexts}
        \cup {[BaseRow EXCEPT !.Technicien = x] : x \in TechnicianTexts}
        \cup {[BaseRow EXCEPT !.Type_Panne = x] : x \in FaultTexts}
        \cup {[BaseRow EXCEPT !.Pieces_Changees = x] : x \in PartsTexts}

\* rows for the files of several lines
MixedRows ==
    { BaseRow,
      Row(<<"M","2">>, <<"1","7","-","1","1","-","2","0","2","4">>, <<"4","1","h","4","5">>, <<"S",".","B","e","r","n","a","r","d">>, <<"P","A","N","N","E"," ","E","L","E","C","T","R","I","Q","U","E">>,
          <<"R","o","u","l","e","m","e","n","t",";","C","o","u","r","r","o","i","e">>),
      Row(<<"M","1">>, <<>>, <<"g","a","r","b","a","g","e">>, <<>>, <<>>, <<>>),
      Row(<<"M","2">>, <<"n","o","t","-","a","-","d","a","t","e">>, <<"g","a","r","b","a","g","e">>, <<"a",".","p","e","t","i","t">>, <<"D","e","f","."," ","L","u","b","r","i","f","i","c","a","t","i","o","n">>,
          <<"a"," ","/"," ","/"," ","b">>),
      Row(<<"M","1">>, <<"2","7","/","0","4","/","2","0","2","4">>, <<"-","5">>, <<"r","o","d","r","i","g","u","e","z">>, <<"f","u","i","t","e","s">>, <<"-">>),
      Row(<<"M","2">>, <<"2","5",".","1","2",".","2","0","2","4">>, <<"N","A","N">>, <<"J","e","a","n"," ","V","a","l","j","e","a","n">>, <<"F","u","i","t","e">>, <<"A","u","c","u","n","e">>),
      Row(<<"M","1">>, <<"2","0","2","4","/","0","4","/","2","7">>, <<"3","3",".","0",".","2","5">>, <<"M","a","r","i","e"," ","S","i","m","o","n">>, <<"S","u","r","c","h","a","u","f","f","e">>,
          <<"R","o","u","l","e","m","e","n","t",","," ","C","o","u","r","r","o","i","e">>),
      Row(<<>>, <<"2","0","2","4","-","0","4","-","2","7">>, <<"9",":","4","5">>, <<"A","."," ","P","E","T","I","T">>, <<"u","s","u","r","e"," ","N","o","r","m","a","l","e">>,
          <<"F","i","l","t","r","e"," ","|"," ","J","o","i","n","t">>) }

RowLists ==
    {<<r>> : r \in FieldRows}
        \cup UNION {[1..k -> MixedRows] : k \in 1..MaxRows}

\* the lines of a file: line i carries the identifier INT<i>
InputFile(rows) ==
    [i \in 1..Len(rows) |->
        [ID_Intervention |-> <<"I","N","T">> \o str_of_nat(i),
         ID_Machine      |-> rows[i].ID_Machine,
         Date            |-> rows[i].Date,
         Duree_Arret_h   |-> rows[i].Duree_Arret_h,
         Technicien      |-> rows[i].Technicien,
         Type_Panne      |-> rows[i].Type_Panne,
         Pieces_Changees |-> rows[i].Pieces_Changees]]

InputFiles == {InputFile(rows) : rows \in RowLists}

(***************************************************************************)
(* generate_report                                                         *)
(***************************************************************************)
\* the path main() passes to InterventionCleaner when none is given
input_file == <<"i","n","t","e","r","v","e","n","t","i","o","n","s","_","2","0","2","4",".","c","s","v">>

output_file == replace(input_file, <<".","c","s","v">>, <<"_","c","l","e","a","n","e","d",".","c","s","v">>)

report_file == replace(input_file, <<".","c","s","v">>, <<"_","c","l","e","a","n","i","n","g","_","r","e","p","o","r","t",".","t","x","t">>)

\* 'c' * 65
rule(c) == [k \in 1..65 |-> c]

\* the values datetime.now().strftime('%Y-%m-%d %H:%M:%S') takes in the model
Clock == {<<"2","0","2","4","-","1","2","-","3","1"," ","2","3",":","5","9",":","5","9">>, <<"2","0","2","5","-","0","1","-","0","1"," ","0","0",":","0","0",":","0","0">>}

\* sum(changes_count.values())
total_changes(counts) ==
    counts.dates + counts.durations + counts.technicians + counts.fault_types
        + counts.parts

\* the f-string of generate_report, line by line, for the paths source and cleaned
report_lines(source, cleaned, frame, counts, now) ==
    << <<>>,
       rule("="),
       <<" "," "," "," "," "," "," "," ","R","A","P","P","O","R","T"," ","D","E"," ","N","E","T","T","O","Y","A","G","E"," ","-"," ","i","n","t","e","r","v","e","n","t","i","o","n","s","_","2","0","2","4",".","c","s","v">>,
       rule("="),
       <<>>,
       <<"D","a","t","e"," ","d","u"," ","n","e","t","t","o","y","a","g","e"," ",":"," ">> \o now,
       <<"F","i","c","h","i","e","r"," ","s","o","u","r","c","e"," "," "," "," "," ",":"," ">> \o source,
       <<"F","i","c","h","i","e","r"," ","n","e","t","t","o","y","e"," "," "," "," ",":"," ">> \o cleaned,
       <<>>,
       rule("-"),
       <<"S","T","A","T","I","S","T","I","Q","U","E","S">>,
       rule("-"),
       <<>>,
       <<"T","o","t","a","l"," ","d","'","e","n","r","e","g","i","s","t","r","e","m","e","n","t","s"," ",":"," ">> \o str_of_nat(Len(frame)),
       <<"T","o","t","a","l"," ","d","e"," ","m","o","d","i","f","i","c","a","t","i","o","n","s"," "," ",":"," ">> \o str_of_nat(total_changes(counts)),
       <<>>,
       <<"D","E","T","A","I","L","S"," ","D","E","S"," ","M","O","D","I","F","I","C","A","T","I","O","N","S"," ",":">>,
       <<>>,
       <<" "," ","D","a","t","e","s"," ","n","o","r","m","a","l","i","s","e","e","s"," "," "," "," "," "," "," "," "," "," ",":"," ">> \o str_of_nat(counts.dates) \o <<" ">>,
       <<" "," ","D","u","r","e","e","s"," ","c","o","r","r","i","g","e","e","s"," "," "," "," "," "," "," "," "," "," "," ",":"," ">> \o str_of_nat(counts.durations),
       <<" "," ","T","e","c","h","n","i","c","i","e","n","s"," ","s","t","a","n","d","a","r","d","i","s","e","s"," "," "," ",":"," ">> \o str_of_nat(counts.technicians),
       <<" "," ","T","y","p","e","s"," ","d","e"," ","p","a","n","n","e","s"," ","n","o","r","m","a","l","i","s","e","s"," ",":"," ">> \o str_of_nat(counts.fault_types),
       <<" "," ","P","i","e","c","e","s"," ","n","o","r","m","a","l","i","s","e","e","s"," "," "," "," "," "," "," "," "," ",":"," ">> \o str_of_nat(counts.parts),
       <<>>,
       rule("-"),
       <<"R","E","S","U","M","E"," ","D","E","S"," ","N","O","R","M","A","L","I","S","A","T","I","O","N","S"," ","A","P","P","L","I","Q","U","E","E","S">>,
       rule("-"),
       <<>>,
       <<"*"," ","F","o","r","m","a","t"," ","d","e"," ","d","a","t","e"," ",":"," ","I","S","O"," ","8","6","0","1"," ","(","Y","Y","Y","Y","-","M","M","-","D","D",")">>,
       <<"*"," ","F","o","r","m","a","t"," ","d","e"," ","d","u","r","e","e"," ",":"," ","D","e","c","i","m","a","l"," ","(","h","e","u","r","e","s"," ","a","v","e","c"," ","2"," ","d","e","c","i","m","a","l","e","s",")">>,
       <<"*"," ","N","o","m","s"," ","d","e"," ","t","e","c","h","n","i","c","i","e","n","s"," ",":"," ","F","o","r","m","a","t"," ","\"","P","r","e","n","o","m"," ","N","o","m","\""," ","s","t","a","n","d","a","r","d","i","s","e">>,
       <<"*"," ","T","y","p","e","s"," ","d","e"," ","p","a","n","n","e","s"," ",":"," ","T","i","t","l","e"," ","C","a","s","e"," ","a","v","e","c"," ","a","c","c","e","n","t","s"," ","c","o","r","r","e","c","t","s">>,
       <<"*"," ","P","i","e","c","e","s"," ","c","h","a","n","g","e","e","s"," ",":"," ","V","i","r","g","u","l","e"," ","c","o","m","m","e"," ","s","e","p","a","r","a","t","e","u","r"," ","u","n","i","q","u","e">>,
       <<"*"," ","V","a","l","e","u","r","s"," ","n","u","l","l","e","s"," ",":"," ","\"","A","u","c","u","n","e","\""," ","p","o","u","r"," ","l","e","s"," ","p","i","e","c","e","s"," ","n","o","n"," ","c","h","a","n","g","e","e","s">>,
       <<>>,
       rule("-"),
       <<"A","M","E","L","I","O","R","A","T","I","O","N","S"," ","D","E"," ","L","A"," ","Q","U","A","L","I","T","E"," ","D","E","S"," ","D","O","N","N","E","E","S">>,
       rule("-"),
       <<>>,
       <<">"," ","C","o","r","r","e","c","t","i","o","n"," ","d","e","s"," ","d","a","t","e","s"," ","m","u","l","t","i","-","f","o","r","m","a","t","s"," ","(","D","D","-","M","M","-","Y","Y","Y","Y",","," ","D","D","/","M","M","/","Y","Y","Y","Y",","," ","D","D",".","M","M",".","Y","Y","Y","Y",")">>,
       <<">"," ","C","o","n","v","e","r","s","i","o","n"," ","d","e","s"," ","d","u","r","e","e","s"," ","t","e","x","t","u","e","l","l","e","s"," ","(","\"","1","3"," ","h","e","u","r","e","s"," ","3","0"," ","m","i","n","\"",","," ","\"","4","1","h","4","5","\"",")">>,
       <<">"," ","C","o","r","r","e","c","t","i","o","n"," ","d","e","s"," ","d","u","r","e","e","s"," ","i","n","v","a","l","i","d","e","s"," ","(","d","o","u","b","l","e"," ","p","o","i","n","t"," ","d","e","c","i","m","a","l",")">>,
       <<">"," ","U","n","i","f","i","c","a","t","i","o","n"," ","d","e","s"," ","n","o","m","s"," ","d","e"," ","t","e","c","h","n","i","c","i","e","n","s"," ","(","a","b","r","e","v","i","a","t","i","o","n","s"," ","e","l","i","m","i","n","e","e","s",")">>,
       <<">"," ","S","t","a","n","d","a","r","d","i","s","a","t","i","o","n"," ","d","e"," ","l","a"," ","c","a","s","s","e"," ","d","e","s"," ","t","y","p","e","s"," ","d","e"," ","p","a","n","n","e","s">>,
       <<">"," ","H","a","r","m","o","n","i","s","a","t","i","o","n"," ","d","e","s"," ","s","e","p","a","r","a","t","e","u","r","s"," ","d","e"," ","p","i","e","c","e","s"," ","(",";",","," ","/",","," ","-",","," ","|"," ","-",">"," ",",",")">>,
       <<">"," ","N","o","r","m","a","l","i","s","a","t","i","o","n"," ","d","e","s"," ","v","a","l","e","u","r","s"," ","v","i","d","e","s"," ","(","N","/","A",","," ","-",","," ","v","i","d","e"," ","-",">"," ","A","u","c","u","n","e",")">>,
       <<>>,
       rule("="),
       <<" "," "," "," "," "," "," "," "," "," "," "," "," "," "," "," "," "," "," "," ","N","E","T","T","O","Y","A","G","E"," ","T","E","R","M","I","N","E">>,
       rule("="),
       <<>> >>

\* the report of a cleaner that main() made for the default path
report_text(frame, counts, now) ==
    report_lines(input_file, output_file, frame, counts, now)

(***************************************************************************)
(* The dashboard's reading of the cleaned parts                            *)
(***************************************************************************)
\* parse_pieces: the parts of a cell, split at ',' and trimmed
parse_pieces(pieces_str) ==
    IF isna(pieces_str) \/ pieces_str = Str(Aucune)
    THEN <<>>
    ELSE LET pieces == split(str(pieces_str), ",")
         IN  [k \in 1..Len(pieces) |-> strip(pieces[k])]

(***************************************************************************)
(* Numbers and orderings of the analyses                                   *)
(***************************************************************************)
\* A frame of the analyses holds, per record, ID_Machine, Technicien and
\* Type_Panne as Str or NaN cells, Date as a Day cell or NaN (NaT), and
\* Duree_Arret_h as a Num cell (float64, in hundredths of an hour) or NaN.
Day(d) == [t |-> "day", s |-> <<>>, n |-> d]

\* the characters of identifiers, in the order of their code points
CodeOrder == <<"-","0","1","2","3","4","5","6","7","8","9","A","B","C","D","E","F","G","H","I","J","K","L","M","N","O","P","Q","R","S","T","U","V","W","X","Y","Z","a","b","c","d","e","f","g","h","i","j","k","l","m","n","o","p","q","r","s","t","u","v","w","x","y","z">>

ord(c) == CHOOSE i \in 1..Len(CodeOrder) : CodeOrder[i] = c

\* a < b for two strings
RECURSIVE str_lt(_, _)
str_lt(a, b) ==
    IF b = <<>> THEN FALSE
    ELSE IF a = <<>> THEN TRUE
    ELSE IF Head(a) # Head(b) THEN ord(Head(a)) < ord(Head(b))
    ELSE str_lt(Tail(a), Tail(b))

\* the strings of a set in ascending order
RECURSIVE sorted_keys(_)
sorted_keys(keys) ==
    IF keys = {} THEN <<>>
    ELSE LET least == CHOOSE k \in keys : \A j \in keys : j = k \/ str_lt(k, j)
         IN  <<least>> \o sorted_keys(keys \ {least})

\* the integer nearest to p / q for q > 0; a quotient exactly half-way
\* between two integers goes to the even one
round_div(p, q) ==
    LET f == p \div q
        r == p - f * q
    IN  IF 2 * r < q THEN f
        ELSE IF 2 * r > q THEN f + 1
        ELSE IF f % 2 = 0 THEN f ELSE f + 1

\* the rows of a frame selected by a set of positions, in the order of the frame
RECURSIVE take(_, _, _)
take(frame, keep, i) ==
    IF i > Len(frame) THEN <<>>
    ELSE (IF i \in keep THEN <<frame[i]>> ELSE <<>>) \o take(frame, keep, i + 1)

\* frame[frame[col] == value]: NaN equals nothing
where(frame, col, value) ==
    take(frame, {i \in 1..Len(frame) : ~isna(value) /\ frame[i][col] = value}, 1)

\* Series.sum() of the durations, in hundredths: missing values are skipped
RECURSIVE sum_durations(_)
sum_durations(group) ==
    IF group = <<>> THEN 0
    ELSE (IF isna(Head(group).Duree_Arret_h) THEN 0 ELSE Head(group).Duree_Arret_h.n)
             + sum_durations(Tail(group))

\* Series.count() of the durations
count_durations(group) ==
    Cardinality({i \in 1..Len(group) : ~isna(group[i].Duree_Arret_h)})

\* The orders sort_values(ascending=False) can give: the default sort is not
\* stable, so rows with equal keys come in any order.  ge[i, j] tells whether
\* the key of row i is at least the key of row j.
sort_values_descending(rows, ge) ==
    LET n == Len(rows)
        orders == {p \in [1..n -> 1..n] :
                      /\ \A i, j \in 1..n : i # j => p[i] # p[j]
                      /\ \A i \in 1..(n - 1) : ge[p[i], p[i + 1]]}
    IN  {[i \in 1..n |-> rows[p[i]]] : p \in orders}

(***************************************************************************)
(* MaintenanceMetricsAnalyzer.calculate_metrics                            *)
(***************************************************************************)
\* the keys of df.groupby(col): the values present, missing ones dropped,
\* in ascending order
group_keys(frame, col) ==
    sorted_keys({frame[i][col].s : i \in {j \in 1..Len(frame) : ~isna(frame[j][col])}})

heures_annee == 365 * 24

\* round(group['Duree_Arret_h'].mean(), 2)
mttr(group) ==
    IF count_durations(group) = 0 THEN NaN
    ELSE Num(round_div(sum_durations(group), count_durations(group)))

\* A faulty rounding: the quotient cut after two decimals.
mtbf_truncated(nb_interventions) == Num((365 * 100) \div nb_interventions)

\* round(365.0 / nb_interventions, 2)
mtbf(nb_interventions) == Num(round_div(365 * 100, nb_interventions))

\* round(((heures_annee - temps_arret_cumule) / heures_annee) * 100, 2)
taux_disponibilite(temps_arret_cumule) ==
    Num(round_div((heures_annee * 100 - temps_arret_cumule) * 100, heures_annee))

\* the dict calculate_metrics appends for one group
machine_metrics(machine_id, group) ==
    [ID_Machine                |-> machine_id,
     Nb_Interventions          |-> Len(group),
     MTTR_heures               |-> mttr(group),
     Temps_Arret_Cumule_heures |-> Num(sum_durations(group)),
     MTBF_jours                |-> mtbf(Len(group)),
     Taux_Disponibilite        |-> taux_disponibilite(sum_durations(group))]

\* pd.DataFrame(metrics) before it is sorted: one row per group
metrics_rows(frame) ==
    LET keys == group_keys(frame, "ID_Machine")
    IN  [k \in 1..Len(keys) |->
            machine_metrics(keys[k], where(frame, "ID_Machine", Str(keys[k])))]

by_cumulated_downtime(rows) ==
    [i, j \in 1..Len(rows) |->
        rows[i].Temps_Arret_Cumule_heures.n >= rows[j].Temps_Arret_Cumule_heures.n]

(***************************************************************************)
(* calculate_pareto (app_maintenance.py)                                   *)
(***************************************************************************)
RECURSIVE gcd(_, _)
gcd(a, b) == IF b = 0 THEN a ELSE gcd(b, a % b)

\* the float p / q for p >= 0 and q >= 0, held as a fraction in lowest
\* terms; 0 / 0 is NaN
Ratio(p, q) ==
    IF q = 0 THEN NaN
    ELSE [t |-> "ratio", num |-> p \div gcd(p, q), den |-> q \div gcd(p, q)]

\* x <= k for a ratio or NaN x: NaN compares False
ratio_le(x, k) == ~isna(x) /\ x.num <= k * x.den

\* x >= y for two ratios
ratio_ge(x, y) == x.num * y.den >= y.num * x.den

\* df.groupby('ID_Machine')['Duree_Arret_h'].sum().reset_index()
pareto_totals(frame) ==
    LET keys == group_keys(frame, "ID_Machine")
    IN  [k \in 1..Len(keys) |->
            [ID_Machine        |-> keys[k],
             Temps_Arret_Total |->
                 Num(sum_durations(where(frame, "ID_Machine", Str(keys[k]))))]]

by_total_downtime(rows) ==
    [i, j \in 1..Len(rows) |-> rows[i].Temps_Arret_Total.n >= rows[j].Temps_Arret_Total.n]

\* Series.cumsum() up to row k
RECURSIVE cumsum(_, _)
cumsum(rows, k) ==
    IF k = 0 THEN 0 ELSE cumsum(rows, k - 1) + rows[k].Temps_Arret_Total.n

\* A faulty flag: critical as long as the machines ranked before it stay
\* within 80 %.
zone_critique_before(rows, k) ==
    k = 1 \/ ratio_le(Ratio(100 * cumsum(rows, k - 1), cumsum(rows, Len(rows))), 80)

\* A faulty flag: critical only below 80 %.
zone_critique_below(rows, k) == 100 * cumsum(rows, k) < 80 * cumsum(rows, Len(rows))

\* A faulty flag: critical when the machine's own share is within 80 %.
zone_critique_own(rows, k) ==
    ratio_le(Ratio(100 * rows[k].Temps_Arret_Total.n, cumsum(rows, Len(rows))), 80)

\* pareto_data['Cumul_%'] <= 80
zone_critique(rows, k) ==
    ratio_le(Ratio(100 * cumsum(rows, k), cumsum(rows, Len(rows))), 80)

\* the columns calculate_pareto adds to the sorted totals
pareto_columns(rows) ==
    LET total_temps_arret == cumsum(rows, Len(rows))
    IN  [k \in 1..Len(rows) |->
            [ID_Machine        |-> rows[k].ID_Machine,
             Temps_Arret_Total |-> rows[k].Temps_Arret_Total,
             Cumul_Temps_Arret |-> Num(cumsum(rows, k)),
             Cumul_pct         |-> Ratio(100 * cumsum(rows, k), total_temps_arret),
             pct_Temps_Arret   |->
                 Ratio(100 * rows[k].Temps_Arret_Total.n, total_temps_arret),
             Zone_Critique     |-> zone_critique(rows, k)]]

(***************************************************************************)
(* analyze_recurrence (app_maintenance_dashboard_v2.py)                    *)
(***************************************************************************)
\* Series.unique(): the values of a column in the order they first appear,
\* a missing value included
RECURSIVE unique(_, _)
unique(frame, col) ==
    IF frame = <<>> THEN <<>>
    ELSE LET before == unique(SubSeq(frame, 1, Len(frame) - 1), col)
             last   == frame[Len(frame)][col]
         IN  IF \E k \in 1..Len(before) : before[k] = last
             THEN before
             ELSE Append(before, last)

\* the days of the records that have a date, in ascending order
RECURSIVE sorted_days(_)
sorted_days(days) ==
    IF days = <<>> THEN <<>>
    ELSE LET k == CHOOSE i \in 1..Len(days) : \A j \in 1..Len(days) : days[i] <= days[j]
         IN  <<days[k]>>
                 \o sorted_days(SubSeq(days, 1, k - 1) \o SubSeq(days, k + 1, Len(days)))

dated(group) == take(group, {i \in 1..Len(group) : ~isna(group[i].Date)}, 1)

\* The differences in days between consecutive rows of group.sort_values('Date'),
\* without the missing ones: rows without a date sort last, and a difference
\* with a missing date is missing.
day_gaps(group) ==
    LET rows == dated(group)
        days == sorted_days([i \in 1..Len(rows) |-> rows[i].Date.n])
    IN  IF Len(days) < 2 THEN <<>>
        ELSE [i \in 1..(Len(days) - 1) |-> days[i + 1] - days[i]]

RECURSIVE sum_seq(_)
sum_seq(s) == IF s = <<>> THEN 0 ELSE Head(s) + sum_seq(Tail(s))

\* panne_df['Delai_Recurrence_jours'].mean()
delai_moyen(panne_df) == Ratio(sum_seq(day_gaps(panne_df)), Len(day_gaps(panne_df)))

\* A faulty score: the number of occurrences over the mean gap.
score_without_one(panne_df) ==
    LET gaps == day_gaps(panne_df)
    IN  IF sum_seq(gaps) > 0
        THEN Ratio(Len(panne_df) * Len(gaps), sum_seq(gaps))
        ELSE Ratio(Len(panne_df), 1)

\* len(panne_df) / (delai_moyen + 1) if delai_moyen > 0 else len(panne_df)
score_recurrence(panne_df) ==
    LET gaps == day_gaps(panne_df)
    IN  IF sum_seq(gaps) > 0
        THEN Ratio(Len(panne_df) * Len(gaps), sum_seq(gaps) + Len(gaps))
        ELSE Ratio(Len(panne_df), 1)

\* the entries of recurrence_data for the pairs of a list, in its order
RECURSIVE recurrence_entries(_, _)
recurrence_entries(frame, pairs) ==
    IF pairs = <<>> THEN <<>>
    ELSE LET machine  == Head(pairs)[1]
             panne    == Head(pairs)[2]
             panne_df == where(where(frame, "ID_Machine", machine), "Type_Panne", panne)
         IN  (IF Len(panne_df) > 1
              THEN << [Machine           |-> machine.s,
                       Type_Panne        |-> panne.s,
                       Nb_Occurrences    |-> Len(panne_df),
                       Delai_Moyen_jours |-> delai_moyen(panne_df),
                       Score_Recurrence  |-> score_recurrence(panne_df)] >>
              ELSE <<>>)
                 \o recurrence_entries(frame, Tail(pairs))

\* The (machine, fault type) pairs the two loops go through, with the pairs
\* that have no record, which give no entry.  The order of the entries is
\* settled by the sort that ends analyze_recurrence.
RECURSIVE pairs_of(_, _)
pairs_of(machines, pannes) ==
    IF machines = <<>> THEN <<>>
    ELSE [k \in 1..Len(pannes) |-> <<Head(machines), pannes[k]>>]
             \o pairs_of(Tail(machines), pannes)

\* recurrence_data before it is sorted
recurrence_data(frame) ==
    recurrence_entries(frame,
        pairs_of(unique(frame, "ID_Machine"), unique(frame, "Type_Panne")))

by_score(rows) ==
    [i, j \in 1..Len(rows) |->
        ratio_ge(rows[i].Score_Recurrence, rows[j].Score_Recurrence)]

(***************************************************************************)
(* analyze_technician_performance (app_maintenance_dashboard_v2.py)        *)
(***************************************************************************)
\* the number of records of a frame with a given fault type
count_type(frame, panne) == Len(where(frame, "Type_Panne", Str(panne)))

\* the fault types of a frame, missing ones left out
types_of(frame) ==
    {frame[i].Type_Panne.s : i \in {j \in 1..Len(frame) : ~isna(frame[j].Type_Panne)}}

\* The values tech_df['Type_Panne'].value_counts().index[0] can take, 'N/A'
\* when no fault type is counted: value_counts orders by count with
\* sort_values(ascending=False), so among the types with the highest count
\* any can come first.
specialisation(tech_df) ==
    IF types_of(tech_df) = {} THEN {<<"N","/","A">>}
    ELSE {p \in types_of(tech_df) :
             \A q \in types_of(tech_df) : count_type(tech_df, p) >= count_type(tech_df, q)}

RECURSIVE sum_squares(_)
sum_squares(s) == IF s = <<>> THEN 0 ELSE Head(s) * Head(s) + sum_squares(Tail(s))

\* Series.std() of the day gaps: the square root of the sample variance
\* (ddof = 1), NaN for fewer than two gaps
std(gaps) ==
    LET n == Len(gaps)
    IN  IF n < 2 THEN NaN
        ELSE [t  |-> "sqrt",
              of |-> Ratio(n * sum_squares(gaps) - sum_seq(gaps) * sum_seq(gaps),
                           n * (n - 1))]

\* tech_df_sorted['Days_Between'].std() if len(tech_df_sorted) > 1 else 0
regularite(tech_df) == IF Len(tech_df) > 1 THEN std(day_gaps(tech_df)) ELSE Num(0)

\* the dict analyze_technician_performance appends for one technician
technician_stats(tech, tech_df, spec) ==
    [Technicien       |-> tech,
     Nb_Interventions |-> Len(tech_df),
     Temps_Moyen_h    |-> Ratio(sum_durations(tech_df), 100 * count_durations(tech_df)),
     Specialisation   |-> spec,
     Regularite       |-> regularite(tech_df),
     Temps_Total_h    |-> Num(sum_durations(tech_df))]

\* the values tech_stats can take before it is sorted
tech_stats_rows(frame) ==
    LET techs   == unique(frame, "Technicien")
        tech_df == [k \in 1..Len(techs) |-> where(frame, "Technicien", techs[k])]
        choices == {c \in [1..Len(techs) -> UNION {specialisation(tech_df[k]) :
                                                      k \in 1..Len(techs)}] :
                       \A k \in 1..Len(techs) : c[k] \in specialisation(tech_df[k])}
    IN  {[k \in 1..Len(techs) |-> technician_stats(techs[k], tech_df[k], c[k])] :
            c \in choices}

by_interventions(rows) ==
    [i, j \in 1..Len(rows) |-> rows[i].Nb_Interventions >= rows[j].Nb_Interventions]

(***************************************************************************)
(* Input frames of the analyses                                            *)
(***************************************************************************)
MaxRecords == 3

Intervention(machine, date, duration, technician, panne) ==
    [ID_Machine |-> machine, Date |-> date, Duree_Arret_h |-> Num(duration),
     Technicien |-> technician, Type_Panne |-> panne]

M1 == Str(<<"M","1">>)

M2 == Str(<<"M","2">>)

Marie == Str(<<"M","a","r","i","e"," ","S","i","m","o","n">>)

Fuite == Str(<<"F","u","i","t","e">>)

Surchauffe == Str(<<"S","u","r","c","h","a","u","f","f","e">>)

\* records that differ in machine and downtime
DowntimeRecords ==
    {Intervention(m, Day(1), d, Marie, Fuite) : m \in {M1, M2, NaN}, d \in {200, 400, 600}}

\* records that differ in machine, date and fault type
EventRecords ==
    {Intervention(m, d, 200, Marie, p) :
        m \in {M1, M2}, d \in {Day(1), Day(10), NaN}, p \in {Fuite, Surchauffe}}

\* records that differ in technician, date and fault type
TechnicianRecords ==
    {Intervention(M1, Day(d), 200, t, p) :
        d \in {1, 10, 12}, t \in {Marie, NaN}, p \in {Fuite, Surchauffe}}

\* the frames of the literal cases
Examples ==
    { <<>>,
      [k \in 1..5 |-> Intervention(M1, Day(k), 200, Marie, Fuite)],
      <<Intervention(M1, Day(1), 10000, Marie, Fuite)>>,
      <<Intervention(M1, Day(1), 5000, Marie, Fuite),
        Intervention(M2, Day(1), 3000, Marie, Fuite),
        Intervention(Str(<<"M","3">>), Day(1), 1000, Marie, Fuite),
        Intervention(Str(<<"M","4">>), Day(1), 1000, Marie, Fuite)>>,
      <<Intervention(M1, Day(1), 1000, Marie, Fuite),
        Intervention(M2, Day(1), 9000, Marie, Fuite)>>,
      <<Intervention(M1, Day(19), 200, Marie, Fuite),
        Intervention(M1, Day(1), 200, Marie, Fuite),
        Intervention(M1, Day(28), 200, Marie, Fuite),
        Intervention(M1, Day(10), 200, Marie, Fuite)>>,
      <<Intervention(M1, Day(1), 200, Marie, NaN),
        Intervention(M1, Day(10), 200, Str(<<"J","u","l","i","e"," ","M","o","r","e","a","u">>), Surchauffe),
        Intervention(M2, Day(12), 200, Str(<<"J","u","l","i","e"," ","M","o","r","e","a","u">>), Fuite),
        Intervention(M2, Day(30), 200, Str(<<"J","u","l","i","e"," ","M","o","r","e","a","u">>), Fuite)>>,
      <<Intervention(M1, Day(1), 200, Marie, Fuite),
        Intervention(M2, Day(1), 200, Marie, Surchauffe),
        Intervention(M1, Day(10), 200, Marie, Fuite),
        Intervention(M2, Day(1), 200, Marie, Surchauffe),
        Intervention(M2, NaN, 200, Marie, Surchauffe)>>,
      <<Intervention(M1, Day(1), 900000, Marie, Fuite),
        Intervention(M2, Day(3), 300, Marie, NaN)>> }

Datasets ==
    Examples
        \cup UNION {[1..k -> DowntimeRecords] : k \in 1..MaxRecords}
        \cup UNION {[1..k -> EventRecords] : k \in 1..MaxRecords}
        \cup UNION {[1..k -> TechnicianRecords] : k \in 1..MaxRecords}

(***************************************************************************)
(* calculate_mtbf (app_maintenance.py)                                     *)
(***************************************************************************)
heures_disponibles == 8760

\* One row of mtbf_data.  The records of the model all carry their
\* ID_Intervention, so its count is the size of the group.  MTBF is in hours.
mtbf_row(machine_id, group) ==
    LET temps_arret_total == sum_durations(group)
    IN  [ID_Machine        |-> machine_id,
         Temps_Arret_Total |-> Num(temps_arret_total),
         Nb_Interventions  |-> Len(group),
         MTBF              |-> Ratio(heures_disponibles * 100 - temps_arret_total,
                                     100 * Len(group)),
         Disponibilite_pct |-> Ratio((heures_disponibles * 100 - temps_arret_total) * 100,
                                     heures_disponibles * 100)]

\* mtbf_data: one row per machine, in the order of groupby
mtbf_rows(frame) ==
    LET keys == group_keys(frame, "ID_Machine")
    IN  [k \in 1..Len(keys) |-> mtbf_row(keys[k], where(frame, "ID_Machine", Str(keys[k])))]

(***************************************************************************)
(* calculate_mtbf_mttr (app_maintenance_dashboard.py)                      *)
(***************************************************************************)
\* machine_df['Time_Between'].mean(): the mean of the hours between consecutive
\* dated interventions, NaN when there is none
avg_mtbf(machine_df) ==
    Ratio(24 * sum_seq(day_gaps(machine_df)), Len(day_gaps(machine_df)))

\* mtbf_data: an entry for each machine of the list with more than one intervention
RECURSIVE mtbf_entries(_, _)
mtbf_entries(frame, machines) ==
    IF machines = <<>> THEN <<>>
    ELSE LET machine_df == where(frame, "ID_Machine", Head(machines))
         IN  (IF Len(machine_df) > 1
              THEN << [Machine          |-> Head(machines),
                       MTBF             |-> avg_mtbf(machine_df),
                       Nb_Interventions |-> Len(machine_df)] >>
              ELSE <<>>)
                 \o mtbf_entries(frame, Tail(machines))

\* the sum of the values of a column of ratios that are not NaN, as a ratio
RECURSIVE ratio_sum(_)
ratio_sum(values) ==
    IF values = <<>> THEN Ratio(0, 1)
    ELSE LET rest == ratio_sum(Tail(values))
             x    == Head(values)
         IN  IF isna(x) THEN rest
             ELSE Ratio(x.num * rest.den + rest.num * x.den, x.den * rest.den)

\* Series.mean(): NaN values are skipped; NaN when nothing is left
ratio_mean(values) ==
    LET n == Cardinality({i \in 1..Len(values) : ~isna(values[i])})
    IN  IF n = 0 THEN NaN
        ELSE Ratio(ratio_sum(values).num, ratio_sum(values).den * n)

\* mtbf_df['MTBF'].mean() if not mtbf_df.empty else 0
mtbf_global_of(mtbf_df) ==
    IF mtbf_df = <<>> THEN IntCell(0)
    ELSE ratio_mean([k \in 1..Len(mtbf_df) |-> mtbf_df[k].MTBF])

\* what calculate_mtbf_mttr returns
mtbf_mttr_of(frame) ==
    LET mtbf_df == mtbf_entries(frame, unique(frame, "ID_Machine"))
    IN  [mttr        |-> Ratio(sum_durations(frame), 100 * count_durations(frame)),
         mtbf_global |-> mtbf_global_of(mtbf_df),
         mtbf_df     |-> mtbf_df]

(***************************************************************************)
(* calculate_availability (app_maintenance_dashboard_v2.py)                *)
(***************************************************************************)
periode_jours == 365

\* ((temps_total - temps_arret) / temps_total) * 100, for a downtime in hundredths
disponibilite(temps_arret) ==
    LET temps_total == periode_jours * 24
    IN  Ratio((temps_total * 100 - temps_arret) * 100, temps_total * 100)

\* availability_data: one entry per value of df['ID_Machine'].unique()
availability_entries(frame) ==
    LET machines == unique(frame, "ID_Machine")
    IN  [k \in 1..Len(machines) |->
            LET machine_df == where(frame, "ID_Machine", machines[k])
            IN  [Machine           |-> machines[k].s,
                 Categorie         |-> split(machines[k].s, "-")[1],
                 Temps_Arret_h     |-> Num(sum_durations(machine_df)),
                 Disponibilite_pct |-> disponibilite(sum_durations(machine_df)),
                 Nb_Interventions  |-> Len(machine_df)]]

\* machine.split('-') on a missing identifier, which is a float
has_missing(frame, col) == \E i \in 1..Len(frame) : isna(frame[i][col])

(***************************************************************************)
(* The sidebar filters of main (app_maintenance_dashboard_v2.py)           *)
(***************************************************************************)
\* the values of a column, as a set
values_of(frame, col) == {frame[i][col] : i \in 1..Len(frame)}

\* sorted(df[col].unique().tolist()) raises TypeError when the list holds a
\* missing value, a float, next to a string
unsortable(frame, col) == NaN \in values_of(frame, col) /\ values_of(frame, col) # {NaN}

\* what the sidebar offers for a column: all_fault_types leaves missing
\* values out, all_technicians and all_machines do not
options(frame, col) ==
    IF col = "Type_Panne" THEN values_of(frame, col) \ {NaN} ELSE values_of(frame, col)

\* (min_date, max_date), the default of the date input
full_range(frame) ==
    LET days == {frame[i].Date.n : i \in {j \in 1..Len(frame) : ~isna(frame[j].Date)}}
    IN  <<CHOOSE d \in days : \A e \in days : d <= e,
          CHOOSE d \in days : \A e \in days : d >= e>>

\* the selections a fresh page starts with
default_filters(frame) ==
    [date_range        |-> full_range(frame),
     selected_faults   |-> options(frame, "Type_Panne"),
     selected_techs    |-> options(frame, "Technicien"),
     selected_machines |-> options(frame, "ID_Machine")]

\* df_filtered: a comparison with a missing date is False, isin finds a
\* missing value only in a list that holds one, and an empty selection
\* filters nothing
apply_filters(frame, f) ==
    take(frame,
         {i \in 1..Len(frame) :
             /\ ~isna(frame[i].Date)
             /\ frame[i].Date.n >= f.date_range[1]
             /\ frame[i].Date.n <= f.date_range[2]
             /\ f.selected_faults # {} => frame[i].Type_Panne \in f.selected_faults
             /\ f.selected_techs # {} => frame[i].Technicien \in f.selected_techs
             /\ f.selected_machines # {} => frame[i].ID_Machine \in f.selected_machines},
         1)

(***************************************************************************)
(* The cleaner as a state machine                                          *)
(***************************************************************************)
VARIABLES
    file,           \* the lines of self.input_file (never written by the cleaner)
    df,             \* self.df; <<>> stands for None before load_data
    changes_log,    \* self.changes_log
    changes_count,  \* the dict the last clean_data returned
    pc,             \* "new", "loaded", "cleaned" or "reported"
    runs,           \* how many times clean_data has run
    report,         \* the lines generate_report wrote; <<>> before it ran
    interventions,  \* the frame df the analyses read
    metrics_df,     \* self.metrics_df of MaintenanceMetricsAnalyzer
    pareto_data,    \* what calculate_pareto returned
    recurrence_df,  \* what analyze_recurrence returned
    tech_stats,     \* what analyze_technician_performance returned
    raised,         \* the exception the analysis ended with, or "none"
    apc,            \* "idle", or the analysis that ran
    program,        \* the script that was started: "cleaner", "analyzer" or "none"
    argv,           \* sys.argv[1], the path main() works on
    disk,           \* the file system: what each path holds
    at,             \* the statement of main() and run() that comes next
    steps,          \* the steps of run() so far, each with its outcome
    returned,       \* what main() returned: "0", "1", or "nothing"
    mtbf_data,      \* what calculate_mtbf returned
    mtbf_mttr,      \* what calculate_mtbf_mttr returned
    availability,   \* what calculate_availability returned
    filters,        \* the selections of the sidebar
    df_filtered     \* the frame the dashboard shows

cleaner_vars == <<file, df, changes_log, changes_count, pc, runs, report>>

analysis_vars ==
    <<interventions, metrics_df, pareto_data, recurrence_df, tech_stats, raised, apc>>

program_vars == <<program, argv, disk, at, steps, returned>>

dashboard_vars == <<mtbf_data, mtbf_mttr, availability, filters, df_filtered>>

vars == <<cleaner_vars, analysis_vars, program_vars, dashboard_vars>>

\* no analysis is running
analysis_idle ==
    /\ metrics_df = <<>>
    /\ pareto_data = <<>>
    /\ recurrence_df = <<>>
    /\ tech_stats = <<>>
    /\ raised = "none"
    /\ apc = "idle"

\* the dashboards have computed nothing
dashboard_idle ==
    /\ mtbf_data = <<>>
    /\ mtbf_mttr = <<>>
    /\ availability = <<>>
    /\ filters = <<>>
    /\ df_filtered = <<>>

\* no script was started
program_idle ==
    /\ program = "none"
    /\ argv = <<>>
    /\ disk = <<>>
    /\ at = "idle"
    /\ steps = <<>>
    /\ returned = "nothing"

\* __init__
Init ==
    /\ file \in InputFiles
    /\ df = <<>>
    /\ changes_log = <<>>
    /\ changes_count = NoChanges
    /\ pc = "new"
    /\ runs = 0
    /\ report = <<>>
    /\ interventions = <<>>
    /\ analysis_idle
    /\ program_idle
    /\ dashboard_idle

load_data ==
    /\ pc = "new"
    /\ df' = read_csv(file)
    /\ pc' = "loaded"
    /\ UNCHANGED <<file, changes_log, changes_count, runs, report, analysis_vars, program_vars, dashboard_vars>>

clean_data ==
    /\ pc \in {"loaded", "cleaned"}
    /\ runs < MaxRuns
    /\ df' = cleaned_frame(df)
    /\ changes_log' = changes_log \o duration_log(df, 1)
    /\ changes_count' =
           [dates       |-> count_changes(df, df', "Date"),
            durations   |-> count_duration_changes(df, df'),
            technicians |-> count_changes(df, df', "Technicien"),
            fault_types |-> count_changes(df, df', "Type_Panne"),
            parts       |-> count_changes(df, df', "Pieces_Changees")]
    /\ pc' = "cleaned"
    /\ runs' = runs + 1
    /\ UNCHANGED <<file, report, analysis_vars, program_vars, dashboard_vars>>

generate_report ==
    /\ pc = "cleaned"
    /\ \E now \in Clock : report' = report_text(df, changes_count, now)
    /\ pc' = "reported"
    /\ UNCHANGED <<file, df, changes_log, changes_count, runs, analysis_vars, program_vars, dashboard_vars>>

Next == load_data \/ clean_data \/ generate_report

Spec == Init /\ [][Next]_vars

(***************************************************************************)
(* The analyses as a state machine                                         *)
(***************************************************************************)
AnalysisInit ==
    /\ file = <<>>
    /\ df = <<>>
    /\ changes_log = <<>>
    /\ changes_count = NoChanges
    /\ pc = "new"
    /\ runs = 0
    /\ report = <<>>
    /\ interventions \in Datasets
    /\ analysis_idle
    /\ program_idle
    /\ dashboard_idle

\* pd.DataFrame([]) has no column: sort_values raises KeyError
calculate_metrics ==
    /\ apc = "idle"
    /\ IF metrics_rows(interventions) = <<>>
       THEN metrics_df' = <<>> /\ raised' = "KeyError"
       ELSE /\ metrics_df' \in
                   sort_values_descending(metrics_rows(interventions),
                       by_cumulated_downtime(metrics_rows(interventions)))
            /\ raised' = "none"
    /\ apc' = "calculate_metrics"
    /\ UNCHANGED <<cleaner_vars, program_vars, dashboard_vars, interventions, pareto_data, recurrence_df, tech_stats>>

calculate_pareto ==
    /\ apc = "idle"
    /\ \E sorted \in sort_values_descending(pareto_totals(interventions),
                         by_total_downtime(pareto_totals(interventions))) :
           pareto_data' = pareto_columns(sorted)
    /\ apc' = "calculate_pareto"
    /\ UNCHANGED <<cleaner_vars, program_vars, dashboard_vars, interventions, metrics_df, recurrence_df, tech_stats,
                   raised>>

analyze_recurrence ==
    /\ apc = "idle"
    /\ IF recurrence_data(interventions) = <<>>
       THEN recurrence_df' = <<>> /\ raised' = "KeyError"
       ELSE /\ recurrence_df' \in
                   sort_values_descending(recurrence_data(interventions),
                       by_score(recurrence_data(interventions)))
            /\ raised' = "none"
    /\ apc' = "analyze_recurrence"
    /\ UNCHANGED <<cleaner_vars, program_vars, dashboard_vars, interventions, metrics_df, pareto_data, tech_stats>>

analyze_technician_performance ==
    /\ apc = "idle"
    /\ IF interventions = <<>>
       THEN tech_stats' = <<>> /\ raised' = "KeyError"
       ELSE /\ \E rows \in tech_stats_rows(interventions) :
                   tech_stats' \in sort_values_descending(rows, by_interventions(rows))
            /\ raised' = "none"
    /\ apc' = "analyze_technician_performance"
    /\ UNCHANGED <<cleaner_vars, program_vars, dashboard_vars, interventions, metrics_df, pareto_data, recurrence_df>>

calculate_mtbf ==
    /\ apc = "idle"
    /\ mtbf_data' = mtbf_rows(interventions)
    /\ apc' = "calculate_mtbf"
    /\ UNCHANGED <<cleaner_vars, program_vars, interventions, metrics_df, pareto_data,
                   recurrence_df, tech_stats, raised, mtbf_mttr, availability, filters,
                   df_filtered>>

calculate_mtbf_mttr ==
    /\ apc = "idle"
    /\ mtbf_mttr' = mtbf_mttr_of(interventions)
    /\ apc' = "calculate_mtbf_mttr"
    /\ UNCHANGED <<cleaner_vars, program_vars, interventions, metrics_df, pareto_data,
                   recurrence_df, tech_stats, raised, mtbf_data, availability, filters,
                   df_filtered>>

\* machine.split('-') raises AttributeError for a missing identifier
calculate_availability ==
    /\ apc = "idle"
    /\ IF has_missing(interventions, "ID_Machine")
       THEN availability' = <<>> /\ raised' = "AttributeError"
       ELSE availability' = availability_entries(interventions) /\ raised' = "none"
    /\ apc' = "calculate_availability"
    /\ UNCHANGED <<cleaner_vars, program_vars, interventions, metrics_df, pareto_data,
                   recurrence_df, tech_stats, mtbf_data, mtbf_mttr, filters, df_filtered>>

\* main() of the dashboard from the sidebar to df_filtered, every filter left
\* as the page sets it.  NaT has no date(): without a dated record min_date
\* raises ValueError.
main_filters ==
    /\ apc = "idle"
    /\ IF \A i \in 1..Len(interventions) : isna(interventions[i].Date)
       THEN raised' = "ValueError" /\ UNCHANGED <<filters, df_filtered>>
       ELSE IF unsortable(interventions, "Technicien")
                   \/ unsortable(interventions, "ID_Machine")
       THEN raised' = "TypeError" /\ UNCHANGED <<filters, df_filtered>>
       ELSE /\ filters' = default_filters(interventions)
            /\ df_filtered' = apply_filters(interventions, filters')
            /\ raised' = "none"
    /\ apc' = "main_filters"
    /\ UNCHANGED <<cleaner_vars, program_vars, interventions, metrics_df, pareto_data,
                   recurrence_df, tech_stats, mtbf_data, mtbf_mttr, availability>>

AnalysisNext ==
    \/ calculate_metrics
    \/ calculate_pareto
    \/ analyze_recurrence
    \/ analyze_technician_performance
    \/ calculate_mtbf
    \/ calculate_mtbf_mttr
    \/ calculate_availability
    \/ main_filters

AnalysisSpec == AnalysisInit /\ [][AnalysisNext]_vars

(***************************************************************************)
(* The two command-line programs: main() and run()                         *)
(***************************************************************************)
\* InterventionCleaner.__init__: self.output_file for the input path p
cleaned_path(p) == replace(p, <<".","c","s","v">>, <<"_","c","l","e","a","n","e","d",".","c","s","v">>)

\* InterventionCleaner.__init__: self.report_file for the input path p
cleaning_report_path(p) == replace(p, <<".","c","s","v">>, <<"_","c","l","e","a","n","i","n","g","_","r","e","p","o","r","t",".","t","x","t">>)

\* MaintenanceMetricsAnalyzer.__init__: self.output_file for the input path p
metrics_path(p) == replace(p, <<"_","c","l","e","a","n","e","d",".","c","s","v">>, <<"_","m","e","t","r","i","c","s",".","c","s","v">>)

\* MaintenanceMetricsAnalyzer.__init__: self.report_file for the input path p
metrics_report_path(p) == replace(p, <<"_","c","l","e","a","n","e","d",".","c","s","v">>, <<"_","m","e","t","r","i","c","s","_","r","e","p","o","r","t",".","t","x","t">>)

\* the path main() of the analyzer takes when none is given
cleaned_input_file == <<"i","n","t","e","r","v","e","n","t","i","o","n","s","_","2","0","2","4","_","c","l","e","a","n","e","d",".","c","s","v">>

\* the values of sys.argv[1], and the defaults
Paths == {input_file, cleaned_input_file, <<"r","e","l","e","v","e",".","t","x","t">>, <<"R","E","L","E","V","E",".","C","S","V">>}

\* every path a program can read or write
AllPaths ==
    Paths \cup {cleaned_path(p) : p \in Paths} \cup {cleaning_report_path(p) : p \in Paths}
          \cup {metrics_path(p) : p \in Paths} \cup {metrics_report_path(p) : p \in Paths}

\* what a path holds: nothing, the file as it was before the program started,
\* the frame to_csv wrote, or the text of a report
Absent == [kind |-> "absent", content |-> <<>>]

Original(lines) == [kind |-> "original", content |-> lines]

Csv(frame) == [kind |-> "csv", content |-> frame]

Text(lines) == [kind |-> "report", content |-> lines]

\* the files the cleaner is started on
CleanerFiles ==
    { InputFile(<<BaseRow>>),
      InputFile(<<Row(<<"M","2">>, <<"1","7","-","1","1","-","2","0","2","4">>, <<"4","1","h","4","5">>, <<"S",".","B","e","r","n","a","r","d">>,
                      <<"P","A","N","N","E"," ","E","L","E","C","T","R","I","Q","U","E">>, <<"R","o","u","l","e","m","e","n","t",";","C","o","u","r","r","o","i","e">>),
                  Row(<<"M","1">>, <<>>, <<"g","a","r","b","a","g","e">>, <<>>, <<>>, <<>>)>>) }

\* the files the analyzer is started on, each as the frame pd.read_csv makes of it
AnalyzerFiles ==
    { <<>>,
      <<Intervention(NaN, Day(1), 200, Marie, Fuite)>>,
      <<Intervention(M1, Day(1), 200, Marie, Fuite)>>,
      <<Intervention(M1, Day(1), 400, Marie, Fuite),
        Intervention(M2, Day(10), 600, Marie, Surchauffe)>> }

\* one step of run() and whether it succeeded
Step(name, ok) == [step |-> name, ok |-> ok]

ProgramInit ==
    /\ program \in {"cleaner", "analyzer"}
    /\ file \in (IF program = "cleaner" THEN CleanerFiles ELSE AnalyzerFiles)
    /\ df = <<>>
    /\ changes_log = <<>>
    /\ changes_count = NoChanges
    /\ pc = "new"
    /\ runs = 0
    /\ report = <<>>
    /\ interventions = <<>>
    /\ analysis_idle
    /\ argv \in Paths
    /\ \E exists \in BOOLEAN :
           disk = [p \in AllPaths |->
                      IF p = argv /\ exists THEN Original(file) ELSE Absent]
    /\ at = "main"
    /\ steps = <<>>
    /\ returned = "nothing"
    /\ dashboard_idle

\* main() of clean_interventions.py up to cleaner.run()
cleaner_main ==
    /\ program = "cleaner"
    /\ at = "main"
    /\ IF disk[argv].kind = "absent"
       THEN at' = "done" /\ returned' = "1"
       ELSE at' = "load_data" /\ returned' = returned
    /\ UNCHANGED <<dashboard_vars, cleaner_vars, analysis_vars, program, argv, disk, steps>>

\* run(): if not self.load_data(): return False
cleaner_load_data ==
    /\ program = "cleaner"
    /\ at = "load_data"
    /\ \E ok \in BOOLEAN :
           /\ steps' = Append(steps, Step("load", ok))
           /\ IF ok
              THEN /\ df' = read_csv(disk[argv].content)
                   /\ pc' = "loaded"
                   /\ at' = "clean_data"
                   /\ returned' = returned
              ELSE /\ at' = "done"
                   /\ returned' = "1"
                   /\ UNCHANGED <<df, pc>>
    /\ UNCHANGED <<dashboard_vars, file, changes_log, changes_count, runs, report, analysis_vars,
                   program, argv, disk>>

\* run(): changes_count = self.clean_data()
cleaner_clean_data ==
    /\ program = "cleaner"
    /\ at = "clean_data"
    /\ df' = cleaned_frame(df)
    /\ changes_log' = changes_log \o duration_log(df, 1)
    /\ changes_count' =
           [dates       |-> count_changes(df, df', "Date"),
            durations   |-> count_duration_changes(df, df'),
            technicians |-> count_changes(df, df', "Technicien"),
            fault_types |-> count_changes(df, df', "Type_Panne"),
            parts       |-> count_changes(df, df', "Pieces_Changees")]
    /\ pc' = "cleaned"
    /\ runs' = runs + 1
    /\ steps' = Append(steps, Step("compute", TRUE))
    /\ at' = "save_cleaned_data"
    /\ UNCHANGED <<dashboard_vars, file, report, analysis_vars, program, argv, disk, returned>>

\* run(): if not self.save_cleaned_data(): return False
cleaner_save_cleaned_data ==
    /\ program = "cleaner"
    /\ at = "save_cleaned_data"
    /\ \E ok \in BOOLEAN :
           /\ steps' = Append(steps, Step("save", ok))
           /\ IF ok
              THEN /\ disk' = [disk EXCEPT ![cleaned_path(argv)] = Csv(df)]
                   /\ at' = "generate_report"
                   /\ returned' = returned
              ELSE /\ disk' = disk
                   /\ at' = "done"
                   /\ returned' = "1"
    /\ UNCHANGED <<dashboard_vars, cleaner_vars, analysis_vars, program, argv>>

\* run(): self.generate_report(changes_count); return True. open() is in no
\* try block: when it raises, main() ends with the exception
cleaner_generate_report ==
    /\ program = "cleaner"
    /\ at = "generate_report"
    /\ \E ok \in BOOLEAN, now \in Clock :
           /\ steps' = Append(steps, Step("report", ok))
           /\ IF ok
              THEN /\ report' = report_lines(argv, cleaned_path(argv), df,
                                             changes_count, now)
                   /\ disk' = [disk EXCEPT ![cleaning_report_path(argv)] = Text(report')]
                   /\ pc' = "reported"
                   /\ returned' = "0"
                   /\ raised' = raised
              ELSE /\ raised' = "OSError"
                   /\ UNCHANGED <<report, disk, pc, returned>>
    /\ at' = "done"
    /\ UNCHANGED <<dashboard_vars, file, df, changes_log, changes_count, runs, interventions,
                   metrics_df, pareto_data, recurrence_df, tech_stats, apc, program,
                   argv>>

\* main() of analyze_maintenance_metrics.py up to analyzer.run(top_n)
analyzer_main ==
    /\ program = "analyzer"
    /\ at = "main"
    /\ IF disk[argv].kind = "absent"
       THEN at' = "done" /\ returned' = "1"
       ELSE at' = "load_data" /\ returned' = returned
    /\ UNCHANGED <<dashboard_vars, cleaner_vars, analysis_vars, program, argv, disk, steps>>

\* run(): if not self.load_data(): return False
analyzer_load_data ==
    /\ program = "analyzer"
    /\ at = "load_data"
    /\ \E ok \in BOOLEAN :
           /\ steps' = Append(steps, Step("load", ok))
           /\ IF ok
              THEN /\ interventions' = disk[argv].content
                   /\ at' = "calculate_metrics"
                   /\ returned' = returned
              ELSE /\ interventions' = interventions
                   /\ at' = "done"
                   /\ returned' = "1"
    /\ UNCHANGED <<dashboard_vars, cleaner_vars, metrics_df, pareto_data, recurrence_df, tech_stats,
                   raised, apc, program, argv, disk>>

\* run(): self.calculate_metrics(). The KeyError of an empty row list is caught
\* nowhere: main() ends with it
analyzer_calculate_metrics ==
    /\ program = "analyzer"
    /\ at = "calculate_metrics"
    /\ IF metrics_rows(interventions) = <<>>
       THEN /\ metrics_df' = <<>>
            /\ raised' = "KeyError"
            /\ steps' = Append(steps, Step("compute", FALSE))
            /\ at' = "done"
       ELSE /\ metrics_df' \in
                   sort_values_descending(metrics_rows(interventions),
                       by_cumulated_downtime(metrics_rows(interventions)))
            /\ raised' = "none"
            /\ steps' = Append(steps, Step("compute", TRUE))
            /\ at' = "display_top_machines"
    /\ apc' = "calculate_metrics"
    /\ UNCHANGED <<dashboard_vars, cleaner_vars, interventions, pareto_data, recurrence_df, tech_stats,
                   program, argv, disk, returned>>

\* run(): self.display_top_machines(top_n) prints and changes nothing
analyzer_display_top_machines ==
    /\ program = "analyzer"
    /\ at = "display_top_machines"
    /\ steps' = Append(steps, Step("display", TRUE))
    /\ at' = "save_metrics"
    /\ UNCHANGED <<dashboard_vars, cleaner_vars, analysis_vars, program, argv, disk, returned>>

\* run(): if not self.save_metrics(): return False
analyzer_save_metrics ==
    /\ program = "analyzer"
    /\ at = "save_metrics"
    /\ \E ok \in BOOLEAN :
           /\ steps' = Append(steps, Step("save", ok))
           /\ IF ok
              THEN /\ disk' = [disk EXCEPT ![metrics_path(argv)] = Csv(metrics_df)]
                   /\ at' = "generate_report"
                   /\ returned' = returned
              ELSE /\ disk' = disk
                   /\ at' = "done"
                   /\ returned' = "1"
    /\ UNCHANGED <<dashboard_vars, cleaner_vars, analysis_vars, program, argv>>

\* run(): self.generate_report(top_n); return True. The report is kept as the
\* two paths it names and the table it lists
analyzer_generate_report ==
    /\ program = "analyzer"
    /\ at = "generate_report"
    /\ \E ok \in BOOLEAN :
           /\ steps' = Append(steps, Step("report", ok))
           /\ IF ok
              THEN /\ disk' = [disk EXCEPT ![metrics_report_path(argv)] =
                                   Text(<<argv, metrics_path(argv), metrics_df>>)]
                   /\ returned' = "0"
                   /\ raised' = raised
              ELSE /\ raised' = "OSError"
                   /\ UNCHANGED <<disk, returned>>
    /\ at' = "done"
    /\ UNCHANGED <<dashboard_vars, cleaner_vars, interventions, metrics_df, pareto_data, recurrence_df,
                   tech_stats, apc, program, argv>>

ProgramNext ==
    \/ cleaner_main
    \/ cleaner_load_data
    \/ cleaner_clean_data
    \/ cleaner_save_cleaned_data
    \/ cleaner_generate_report
    \/ analyzer_main
    \/ analyzer_load_data
    \/ analyzer_calculate_metrics
    \/ analyzer_display_top_machines
    \/ analyzer_save_metrics
    \/ analyzer_generate_report

ProgramSpec == ProgramInit /\ [][ProgramNext]_vars
(***************************************************************************)
(* Properties of the field normalizers and of clean_data                   *)
(***************************************************************************)
\* the frame load_data built from the file
loaded == read_csv(file)

\* the text of a cell of the file is a date in none of the formats
date_unrecognised(text) ==
    /\ text \notin na_values
    /\ \A k \in 1..Len(formats) : ~strptime(strip(text), formats[k]).ok

\* C1: every field normalizer returns its own output unchanged, so cleaning
\* the cleaned records again leaves every field of every record as it is.
C1_NormalizeIdempotent == pc = "cleaned" => cleaned_frame(df) = df

\* C2: a clean_data that runs on records clean_data has already cleaned
\* reports zero changes for each of the five fields.
C2_RerunReportsNoChange == runs >= 2 => changes_count = NoChanges

\* C3: clean_data neither removes, adds nor reorders records: the frame has
\* one record per line of the file, in the order of the file, and the two
\* identifiers of every record are those that were loaded.
C3_NoDrop ==
    pc = "cleaned" =>
        /\ Len(df) = Len(file)
        /\ \A i \in 1..Len(file) :
               /\ df[i].ID_Intervention = object_cell(file[i].ID_Intervention)
               /\ df[i].ID_Machine = object_cell(file[i].ID_Machine)

C3_Witness ==
    /\ pc = "cleaned"
    /\ Len(df) = 2
    /\ \E i \in 1..Len(file) :
           /\ file[i].Date = <<"n","o","t","-","a","-","d","a","t","e">>
           /\ file[i].Duree_Arret_h = <<"g","a","r","b","a","g","e">>
           /\ file[i].ID_Intervention = <<"I","N","T","2">>

\* C4: a date of the calendar written in any of the five listed forms is
\* normalized to the same day, month and year in the form YYYY-MM-DD.
C4_DateForms ==
    pc = "cleaned" =>
        \A i \in 1..Len(file) : \A f \in DateForms :
            \A y \in Years, m \in Months, d \in Days :
                (IsValidDate(y, m, d) /\ file[i].Date = format_input(f, y, m, d))
                    => df[i].Date = Str(format_input(1, y, m, d))

C4_Witness ==
    /\ pc = "cleaned"
    /\ file[1].Date = <<"1","2","/","0","1","/","2","0","2","4">>
    /\ df[1].Date = Str(<<"2","0","2","4","-","0","1","-","1","2">>)

strategy_ok(k, s) ==
    CASE k = 1 -> parse_float(s).ok
      [] k = 2 -> match_h(s).ok
      [] k = 3 -> match_heures(s).ok
      [] k = 4 -> match_colon(s).ok
      [] k = 5 -> parse_float(replace(s, <<",">>, <<".">>)).ok

strategy_value(k, s) ==
    CASE k = 1 -> float_cell(parse_float(s))
      [] k = 2 -> Num(100 * int_of(match_h(s).h) + (10 * int_of(match_h(s).m) + 3) \div 6)
      [] k = 3 -> Num(100 * int_of(match_heures(s).h)
                          + (10 * int_of(match_heures(s).m) + 3) \div 6)
      [] k = 4 -> Num(100 * int_of(match_colon(s).h)
                          + (10 * int_of(match_colon(s).m) + 3) \div 6)
      [] k = 5 -> float_cell(parse_float(replace(s, <<",">>, <<".">>)))

\* the literal cases of the duration table, in hundredths of an hour
DurationTable ==
    { <<<<"1","4",".","0","0">>, 1400>>, <<<<"4","1","h","4","5">>, 4175>>, <<<<"1","3"," ","h","e","u","r","e","s"," ","3","0"," ","m","i","n">>, 1350>>,
      <<<<"9",":","4","5">>, 975>>, <<<<"3","3",".","0",".","2","5">>, 3325>>, <<<<"g","a","r","b","a","g","e">>, 0>> }

\* C6: the duration of a record is the value of the first strategy, in the
\* order decimal, 'h', 'heures', ':', decimal comma, that accepts the raw
\* string (0.0 when none does), and the literal cases of the table hold.
C6_DurationStrategies ==
    (pc = "cleaned" /\ runs = 1) =>
        \A i \in 1..Len(file) :
            LET raw == loaded[i].Duree_Arret_h
                s   == repair_double_point(strip(str(raw)))
                ok  == {k \in 1..5 : strategy_ok(k, s)}
                got == df[i].Duree_Arret_h
            IN  /\ (~isna(raw) /\ ok # {}) =>
                       got = strategy_value(CHOOSE k \in ok : \A j \in ok : k <= j, s)
                /\ (~isna(raw) /\ ok = {}) => got = Num(0)
                /\ \A c \in DurationTable :
                       file[i].Duree_Arret_h = c[1] => got = Num(c[2])

C6_Witness ==
    /\ pc = "cleaned"
    /\ runs = 1
    /\ file[1].Duree_Arret_h = <<"4","1","h","4","5">>
    /\ df[1].Duree_Arret_h = Num(4175)

\* a log entry names the record of line i: it holds the machine or the
\* intervention identifier of that line
identifies(entry, i) ==
    \/ file[i].ID_Machine # <<>> /\ contains(entry, file[i].ID_Machine)
    \/ file[i].ID_Intervention # <<>> /\ contains(entry, file[i].ID_Intervention)

\* C7: a record whose raw duration no strategy accepts gets the duration 0.0
\* and a warning entry in changes_log that identifies its machine or row.
C7_WarningIdentifiesRecord ==
    (pc = "cleaned" /\ runs = 1) =>
        \A i \in 1..Len(file) :
            (~isna(loaded[i].Duree_Arret_h)
                /\ duration_unrecognised(
                       repair_double_point(strip(str(loaded[i].Duree_Arret_h)))))
            => /\ df[i].Duree_Arret_h = Num(0)
               /\ \E k \in 1..Len(changes_log) :
                      /\ starts_with(changes_log[k], <<"[","W","A","R","N","I","N","G","]">>)
                      /\ identifies(changes_log[k], i)

\* C8: after clean_data the duration of every record is a number >= 0.
C8_DurationNonNegative ==
    pc = "cleaned" =>
        \A i \in 1..Len(df) :
            df[i].Duree_Arret_h.t = "num" /\ df[i].Duree_Arret_h.n >= 0

\* the fall-through of the two lookups: the input trimmed and Title-Cased
title_cased(text) == Str(title(strip(text)))

\* C9 for one table: an input equal to a listed alias up to letter case gets
\* the canonical value the table lists for that alias, any other input is
\* trimmed and Title-Cased.
alias_lookup(mapping, text, got) ==
    /\ \A k \in 1..Len(mapping) :
           lower(strip(text)) = lower(mapping[k][1]) => got = Str(mapping[k][2])
    /\ (\A k \in 1..Len(mapping) : lower(strip(text)) # lower(mapping[k][1]))
           => got = title_cased(text)

\* C9: the technician and fault-type lookups are case-insensitive exact
\* matches on every listed alias, with Title-Case as the fall-through.
C9_AliasLookup ==
    pc = "cleaned" =>
        \A i \in 1..Len(file) :
            /\ file[i].Technicien \notin na_values =>
                   alias_lookup(technician_mapping, file[i].Technicien, df[i].Technicien)
            /\ file[i].Type_Panne \notin na_values =>
                   alias_lookup(fault_mapping, file[i].Type_Panne, df[i].Type_Panne)

\* "Initial.Last" and "Initial. Last" of a canonical "First Last" name, in
\* lower case
initial_forms(canonical) ==
    LET words == split(lower(canonical), " ")
    IN  { <<Head(words[1])>> \o <<".">> \o words[2],
          <<Head(words[1])>> \o <<".", " ">> \o words[2] }

\* C10: an initial, a dot and the last name of a known technician, in any
\* letter case and with or without a space after the dot, is expanded to the
\* canonical "First Last" name of that technician.
C10_InitialDotLast ==
    pc = "cleaned" =>
        \A i \in 1..Len(file) : \A k \in 1..Len(technician_mapping) :
            lower(strip(file[i].Technicien)) \in initial_forms(technician_mapping[k][2])
                => df[i].Technicien = Str(technician_mapping[k][2])


(***************************************************************************)
(* Properties of normalize_parts and of the change counts                  *)
(***************************************************************************)
\* the tokens that stand for "no part", in lower case
sentinel_tokens == {<<>>, <<"-">>, <<"n","/","a">>, <<"a","u","c","u","n","e">>}

\* the text of a cell of the file means "no part": missing, or a sentinel
\* token in any letter case
is_no_parts(text) ==
    text \in na_values \/ lower(strip(text)) \in sentinel_tokens

\* the text holds two whitespace characters in a row
has_whitespace_run(s) ==
    \E k \in 1..(Len(s) - 1) : s[k] \in Whitespace /\ s[k + 1] \in Whitespace

\* the text holds none of the delimiters normalize_parts replaces
no_delimiter(s) ==
    /\ ~contains(s, <<";">>)
    /\ ~contains(s, <<" ","/"," ">>)
    /\ ~contains(s, <<" ","|"," ">>)
    /\ ~contains(s, <<" ","-"," ">>)

\* C11: the parts of a record are the marker "Aucune" when the raw value is
\* missing or a sentinel token in any letter case; otherwise they hold no
\* ';', no ' / ', ' | ' or ' - ' and no run of two whitespace characters.
C11_PartsMarkerAndDelimiters ==
    (pc = "cleaned" /\ runs = 1) =>
        \A i \in 1..Len(file) :
            LET text == file[i].Pieces_Changees
                got  == df[i].Pieces_Changees
            IN  IF is_no_parts(text)
                THEN got = Str(Aucune)
                ELSE /\ got.t = "str"
                     /\ no_delimiter(got.s)
                     /\ ~has_whitespace_run(got.s)

\* C12: splitting the cleaned parts of a record at ',' and trimming each
\* piece, as parse_pieces does, never gives an empty piece.
C12_NoEmptyPiece ==
    pc = "cleaned" =>
        \A i \in 1..Len(df) :
            LET pieces == parse_pieces(df[i].Pieces_Changees)
            IN  \A k \in 1..Len(pieces) : pieces[k] # <<>>

\* the number of records whose value in a column is not the value it had:
\* two missing values are the same value
count_differing(old, new, col) ==
    Cardinality({i \in 1..Len(old) : old[i][col] # new[i][col]})

\* C13: each of the five change counts clean_data returns is the number of
\* records whose value in that field differs before and after normalization;
\* a value left as it was, a missing value that stays missing included, is
\* not counted.
C13_ChangeCounts ==
    (pc = "cleaned" /\ runs = 1) =>
        changes_count =
            [dates       |-> count_differing(loaded, df, "Date"),
             durations   |-> count_differing(loaded, df, "Duree_Arret_h"),
             technicians |-> count_differing(loaded, df, "Technicien"),
             fault_types |-> count_differing(loaded, df, "Type_Panne"),
             parts       |-> count_differing(loaded, df, "Pieces_Changees")]

(***************************************************************************)
(* Properties of the cleaning report                                       *)
(***************************************************************************)
\* the number of records without an intervention or a machine identifier
missing_ids(frame) ==
    Cardinality({i \in 1..Len(frame) :
                    isna(frame[i].ID_Intervention) \/ isna(frame[i].ID_Machine)})

\* the frame with every missing identifier filled in
with_ids(frame) ==
    [i \in 1..Len(frame) |->
        [frame[i] EXCEPT
            !.ID_Intervention = IF isna(@) THEN Str(<<"I","N","T","0">>) ELSE @,
            !.ID_Machine      = IF isna(@) THEN Str(<<"M","0">>) ELSE @]]

\* what one run of clean_data and generate_report gives for a loaded frame:
\* the change counts, the log and the report
cleaning_result(frame, now) ==
    LET new    == cleaned_frame(frame)
        counts == [dates       |-> count_changes(frame, new, "Date"),
                   durations   |-> count_duration_changes(frame, new),
                   technicians |-> count_changes(frame, new, "Technicien"),
                   fault_types |-> count_changes(frame, new, "Type_Panne"),
                   parts       |-> count_changes(frame, new, "Pieces_Changees")]
    IN  <<counts, duration_log(frame, 1), report_text(new, counts, now)>>

\* C14: a record without ID_Intervention or ID_Machine is kept by cleaning,
\* and the number of such records shows in the result of the cleaning: the
\* counts, the log and the report are not those the same records would give
\* with no identifier missing.
C14_MissingIdsSurfaced ==
    (pc = "reported" /\ runs = 1) =>
        /\ Len(df) = Len(file)
        /\ missing_ids(df) = missing_ids(loaded)
        /\ missing_ids(df) > 0 =>
               \A now \in Clock :
                   <<changes_count, changes_log, report>>
                       # cleaning_result(with_ids(loaded), now)

\* the text after the last ':' of a line, trimmed
after_colon(line) ==
    LET pieces == split(line, ":") IN strip(pieces[Len(pieces)])

\* a line of the report gives the number n after a ':'
shows_count(lines, n) ==
    \E k \in 1..Len(lines) :
        contains(lines[k], <<":">>) /\ after_colon(lines[k]) = str_of_nat(n)

\* C15: every warning about an unparsed duration that clean_data put in
\* changes_log is in the report generate_report then writes, and so are the
\* five change counts.
C15_ReportHoldsWarnings ==
    pc = "reported" =>
        /\ \A k \in 1..Len(changes_log) :
               starts_with(changes_log[k], <<"[","W","A","R","N","I","N","G","]">>) =>
                   \E j \in 1..Len(report) : contains(report[j], changes_log[k])
        /\ shows_count(report, changes_count.dates)
        /\ shows_count(report, changes_count.durations)
        /\ shows_count(report, changes_count.technicians)
        /\ shows_count(report, changes_count.fault_types)
        /\ shows_count(report, changes_count.parts)

(***************************************************************************)
(* Properties of the analyses                                              *)
(***************************************************************************)
\* the positions of the records of a machine
records_of(machine) ==
    {i \in 1..Len(interventions) : interventions[i].ID_Machine = Str(machine)}

\* the machines that have a record
machines_present ==
    {interventions[i].ID_Machine.s :
        i \in {j \in 1..Len(interventions) : ~isna(interventions[j].ID_Machine)}}

\* the sum of the downtimes of a set of records, in hundredths of an hour
RECURSIVE downtime(_)
downtime(S) ==
    IF S = {} THEN 0
    ELSE LET i == CHOOSE j \in S : TRUE
         IN  interventions[i].Duree_Arret_h.n + downtime(S \ {i})

\* the frame has one record per downtime of the list, all of machine M1
downtimes_are(list) ==
    /\ Len(interventions) = Len(list)
    /\ \A i \in 1..Len(list) :
           /\ interventions[i].ID_Machine = M1
           /\ interventions[i].Duree_Arret_h = Num(list[i])

\* C16: calculate_metrics gives one row per distinct ID_Machine, with the
\* number of its records, the mean and the sum of their downtimes, 365.0
\* over their number and ((8760 - sum) / 8760) * 100, each rounded to 2
\* decimals: downtimes [2.0, 4.0, 6.0] give 3, 4.0, 12.0, 121.67 and 99.86,
\* five interventions give an MTBF of 73.0, 100 h give 98.86.
C16_MachineMetrics ==
    (apc = "calculate_metrics" /\ raised = "none") =>
        /\ Len(metrics_df) = Cardinality(machines_present)
        /\ {metrics_df[k].ID_Machine : k \in 1..Len(metrics_df)} = machines_present
        /\ \A k \in 1..Len(metrics_df) :
               LET row == metrics_df[k]
                   nb  == Cardinality(records_of(row.ID_Machine))
                   sum == downtime(records_of(row.ID_Machine))
               IN  /\ row.Nb_Interventions = nb
                   /\ row.MTTR_heures = Num(round_div(sum, nb))
                   /\ row.Temps_Arret_Cumule_heures = Num(sum)
                   /\ row.MTBF_jours = Num(round_div(36500, nb))
                   /\ row.Taux_Disponibilite
                          = Num(round_div((876000 - sum) * 100, 8760))
        /\ downtimes_are(<<200, 400, 600>>) =>
               /\ metrics_df[1].Nb_Interventions = 3
               /\ metrics_df[1].MTTR_heures = Num(400)
               /\ metrics_df[1].Temps_Arret_Cumule_heures = Num(1200)
               /\ metrics_df[1].MTBF_jours = Num(12167)
               /\ metrics_df[1].Taux_Disponibilite = Num(9986)
        /\ Len(interventions) = 5 /\ records_of(<<"M","1">>) = 1..5 =>
               metrics_df[1].MTBF_jours = Num(7300)
        /\ downtimes_are(<<10000>>) => metrics_df[1].Taux_Disponibilite = Num(9886)

C16_Witness ==
    /\ apc = "calculate_metrics"
    /\ downtimes_are(<<200, 400, 600>>)
    /\ Len(metrics_df) = 1
    /\ metrics_df[1].MTBF_jours = Num(12167)
    /\ metrics_df[1].Taux_Disponibilite = Num(9986)

\* the total downtimes of the ranking are those of the list, in its order
ranking_is(list) ==
    /\ Len(pareto_data) = Len(list)
    /\ \A k \in 1..Len(list) : pareto_data[k].Temps_Arret_Total = Num(list[k])

\* the downtime of the first k machines of the ranking, from the records
running_downtime(k) ==
    downtime(UNION {records_of(pareto_data[j].ID_Machine) : j \in 1..k})

\* C17: calculate_pareto ranks the machines by total downtime, highest
\* first; the cumulative percentage of a machine is the downtime of the
\* machines up to and including it over the total, times 100; a machine is
\* critical exactly when its own cumulative percentage is at most 80.
\* Downtimes [50, 30, 10, 10] give [50, 80, 90, 100]: the machine at 80 is
\* critical, the one at 90 is not.
C17_ParetoRanking ==
    apc = "calculate_pareto" =>
        LET n     == Len(pareto_data)
            total == downtime({i \in 1..Len(interventions) :
                                  ~isna(interventions[i].ID_Machine)})
        IN  /\ n = Cardinality(machines_present)
            /\ {pareto_data[k].ID_Machine : k \in 1..n} = machines_present
            /\ \A k \in 1..n :
                   /\ pareto_data[k].Temps_Arret_Total
                          = Num(downtime(records_of(pareto_data[k].ID_Machine)))
                   /\ k < n => pareto_data[k].Temps_Arret_Total.n
                                   >= pareto_data[k + 1].Temps_Arret_Total.n
                   /\ pareto_data[k].Cumul_pct = Ratio(100 * running_downtime(k), total)
                   /\ pareto_data[k].Zone_Critique
                          <=> 100 * running_downtime(k) <= 80 * total
            /\ ranking_is(<<5000, 3000, 1000, 1000>>) =>
                   /\ [k \in 1..4 |-> pareto_data[k].Cumul_pct]
                          = <<Ratio(50, 1), Ratio(80, 1), Ratio(90, 1), Ratio(100, 1)>>
                   /\ [k \in 1..4 |-> pareto_data[k].Zone_Critique]
                          = <<TRUE, TRUE, FALSE, FALSE>>

C17_Witness ==
    /\ apc = "calculate_pareto"
    /\ ranking_is(<<5000, 3000, 1000, 1000>>)
    /\ pareto_data[2].Cumul_pct = Ratio(80, 1)
    /\ pareto_data[2].Zone_Critique
    /\ ~pareto_data[3].Zone_Critique

\* machine k of the ranking is the first whose cumulative percentage is
\* above 80
first_past_80(k) ==
    /\ ~ratio_le(pareto_data[k].Cumul_pct, 80)
    /\ \A j \in 1..(k - 1) : ratio_le(pareto_data[j].Cumul_pct, 80)

\* C18 as stated: the first machine of the ranking whose inclusion takes the
\* cumulative percentage past 80 is flagged critical.
C18_CrossingIsCritical ==
    apc = "calculate_pareto" =>
        \A k \in 1..Len(pareto_data) : first_past_80(k) => pareto_data[k].Zone_Critique

\* C18 as amended: the first machine of the ranking whose inclusion takes
\* the cumulative percentage past 80 is not flagged critical, and neither is
\* any machine after it; with downtimes [90, 10] no machine is critical.
C18_CrossingIsNotCritical ==
    apc = "calculate_pareto" =>
        /\ \A k \in 1..Len(pareto_data) :
               first_past_80(k) =>
                   \A j \in k..Len(pareto_data) : ~pareto_data[j].Zone_Critique
        /\ ranking_is(<<9000, 1000>>) =>
               ~pareto_data[1].Zone_Critique /\ ~pareto_data[2].Zone_Critique

C18_Witness ==
    /\ apc = "calculate_pareto"
    /\ ranking_is(<<9000, 1000>>)
    /\ first_past_80(1)
    /\ pareto_data[1].Cumul_pct = Ratio(90, 1)
    /\ ~pareto_data[1].Zone_Critique

\* the positions of the records of a machine with a fault type
occurrences(machine, panne) ==
    {i \in 1..Len(interventions) :
        /\ interventions[i].ID_Machine = Str(machine)
        /\ interventions[i].Type_Panne = Str(panne)}

\* the days of a set of records, for those that have a date
days_of(S) == {interventions[i].Date.n : i \in {j \in S : ~isna(interventions[j].Date)}}

\* the number of records of a set that have a date
dated_count(S) == Cardinality({i \in S : ~isna(interventions[i].Date)})

\* the days from the first to the last dated record of a set: the sum of the
\* gaps between consecutive records in the order of their dates
span(S) ==
    IF days_of(S) = {} THEN 0
    ELSE (CHOOSE d \in days_of(S) : \A e \in days_of(S) : d >= e)
             - (CHOOSE d \in days_of(S) : \A e \in days_of(S) : d <= e)

\* C19: analyze_recurrence gives one entry for each (machine, fault type)
\* pair with at least 2 occurrences and for no other; its mean gap is the
\* mean number of days between consecutive occurrences in date order; its
\* score is the number of occurrences over the mean gap plus 1, or the number
\* of occurrences when the mean gap is 0 or undefined (4 occurrences with a
\* mean gap of 9 give 0.4); the entries are in descending order of score.
C19_Recurrence ==
    (apc = "analyze_recurrence" /\ raised = "none") =>
        LET n      == Len(recurrence_df)
            pair(k) == <<recurrence_df[k].Machine, recurrence_df[k].Type_Panne>>
            recurring ==
                {<<interventions[i].ID_Machine.s, interventions[i].Type_Panne.s>> :
                    i \in {j \in 1..Len(interventions) :
                              /\ ~isna(interventions[j].ID_Machine)
                              /\ ~isna(interventions[j].Type_Panne)
                              /\ Cardinality(occurrences(
                                     interventions[j].ID_Machine.s,
                                     interventions[j].Type_Panne.s)) >= 2}}
        IN  /\ {pair(k) : k \in 1..n} = recurring
            /\ n = Cardinality(recurring)
            /\ \A k \in 1..n :
                   LET occ   == occurrences(pair(k)[1], pair(k)[2])
                       nb == Cardinality(occ)
                       gaps  == dated_count(occ) - 1
                       entry == recurrence_df[k]
                   IN  /\ entry.Nb_Occurrences = nb
                       /\ entry.Delai_Moyen_jours
                              = (IF gaps >= 1 THEN Ratio(span(occ), gaps) ELSE NaN)
                       /\ entry.Score_Recurrence
                              = (IF gaps >= 1 /\ span(occ) > 0
                                 THEN Ratio(nb * gaps, span(occ) + gaps)
                                 ELSE Ratio(nb, 1))
                       /\ (nb = 4 /\ entry.Delai_Moyen_jours = Ratio(9, 1))
                              => entry.Score_Recurrence = Ratio(4, 10)
                       /\ k < n => ratio_ge(entry.Score_Recurrence,
                                            recurrence_df[k + 1].Score_Recurrence)

C19_Witness ==
    /\ apc = "analyze_recurrence"
    /\ Len(recurrence_df) = 1
    /\ recurrence_df[1].Nb_Occurrences = 4
    /\ recurrence_df[1].Delai_Moyen_jours = Ratio(9, 1)
    /\ recurrence_df[1].Score_Recurrence = Ratio(2, 5)

\* the positions of the records of a technician
records_by(tech) ==
    {i \in 1..Len(interventions) : ~isna(tech) /\ interventions[i].Technicien = tech}

\* the positions, among a set of records, of those with a fault type
with_type(S, panne) == {i \in S : interventions[i].Type_Panne = Str(panne)}

\* the fault type has the highest count among a set of records
most_frequent(S, panne) ==
    /\ with_type(S, panne) # {}
    /\ \A i \in S : ~isna(interventions[i].Type_Panne) =>
           Cardinality(with_type(S, panne))
               >= Cardinality(with_type(S, interventions[i].Type_Panne.s))

\* the first record of a set with a fault type
first_seen(S, panne) ==
    CHOOSE i \in with_type(S, panne) : \A j \in with_type(S, panne) : i <= j

\* C20: the specialization of a technician is the fault type with the
\* highest count among the records of the technician, the one seen first in
\* the records when several have that count, and a technician with fewer
\* than 2 interventions has the regularity 0.
C20_Specialisation ==
    (apc = "analyze_technician_performance" /\ raised = "none") =>
        \A k \in 1..Len(tech_stats) :
            LET S    == records_by(tech_stats[k].Technicien)
                spec == tech_stats[k].Specialisation
            IN  /\ (\E i \in S : ~isna(interventions[i].Type_Panne)) =>
                       /\ most_frequent(S, spec)
                       /\ \A i \in S :
                              (/\ ~isna(interventions[i].Type_Panne)
                               /\ most_frequent(S, interventions[i].Type_Panne.s))
                              => first_seen(S, spec) <= i
                /\ Cardinality(S) < 2 => tech_stats[k].Regularite = Num(0)

(***************************************************************************)
(* Properties of the analyses on degenerate frames                         *)
(***************************************************************************)
\* C21: on an empty record set, and on one where no fault recurs,
\* calculate_metrics, analyze_recurrence and analyze_technician_performance
\* end without raising and give an empty result.
C21_EmptyIsNotAnError ==
    /\ (apc = "calculate_metrics" /\ metrics_rows(interventions) = <<>>) =>
           raised = "none" /\ metrics_df = <<>>
    /\ (apc = "analyze_recurrence" /\ recurrence_data(interventions) = <<>>) =>
           raised = "none" /\ recurrence_df = <<>>
    /\ (apc = "analyze_technician_performance" /\ interventions = <<>>) =>
           raised = "none" /\ tech_stats = <<>>

\* the path run() saves its table to, and the path it writes its report to
output_of(prog, p) == IF prog = "cleaner" THEN cleaned_path(p) ELSE metrics_path(p)

report_of(prog, p) ==
    IF prog = "cleaner" THEN cleaning_report_path(p) ELSE metrics_report_path(p)

\* C22: whatever the input path, once run() of the cleaner or of the analyzer
\* has ended, the output path and the report path differ from the input path
\* and from each other, and the input file holds its original content.
C22_InputNeverOverwritten ==
    (program \in {"cleaner", "analyzer"} /\ at = "done" /\ steps # <<>>) =>
        /\ output_of(program, argv) # argv
        /\ report_of(program, argv) # argv
        /\ output_of(program, argv) # report_of(program, argv)
        /\ disk[argv].kind = "original"

\* the steps of run() that the programs name, without the printing of the top N
named_steps == SelectSeq(steps, LAMBDA s : s.step # "display")

\* a load or a save of this run failed
load_or_save_failed ==
    \E i \in 1..Len(steps) : steps[i].step \in {"load", "save"} /\ ~steps[i].ok

\* the steps come in the order load, compute, save, report
in_run_order ==
    \A i \in 1..Len(named_steps) :
        named_steps[i].step = <<"load", "compute", "save", "report">>[i]

\* no step follows a failed load or a failed save
stops_at_failure ==
    \A i \in 1..(Len(steps) - 1) : steps[i].step \in {"load", "save"} => steps[i].ok

\* C25: when a program has ended, main() returned 1 if the input file does not
\* exist or a load or a save failed, and 0 otherwise; the steps ran in the order
\* load, compute, save, report, and none ran after a failed load or save.
C25_ExitCodesAndOrder ==
    program \in {"cleaner", "analyzer"} =>
        /\ at = "done" =>
               returned = (IF disk[argv].kind = "absent" \/ load_or_save_failed
                           THEN "1" ELSE "0")
        /\ in_run_order
        /\ stops_at_failure

\* row a of a ranked table comes before row b: more downtime, or as much and
\* the lesser machine identifier
ranked_before(total_a, id_a, total_b, id_b) ==
    total_a > total_b \/ (total_a = total_b /\ str_lt(id_a, id_b))

\* C23: the tables of calculate_metrics and calculate_pareto are in descending
\* order of cumulative downtime, and machines with equal downtime are in
\* ascending order of their identifier.
C23_TiesByIdentifier ==
    /\ apc = "calculate_metrics" =>
           \A k \in 1..(Len(metrics_df) - 1) :
               ranked_before(metrics_df[k].Temps_Arret_Cumule_heures.n,
                             metrics_df[k].ID_Machine,
                             metrics_df[k + 1].Temps_Arret_Cumule_heures.n,
                             metrics_df[k + 1].ID_Machine)
    /\ apc = "calculate_pareto" =>
           \A k \in 1..(Len(pareto_data) - 1) :
               ranked_before(pareto_data[k].Temps_Arret_Total.n,
                             pareto_data[k].ID_Machine,
                             pareto_data[k + 1].Temps_Arret_Total.n,
                             pareto_data[k + 1].ID_Machine)

\* the values the two definitions of MTBF give for a set of records: 365 over
\* their number, in days or in hours, and, for two records or more, the mean
\* gap between consecutive records in the order of their dates, in days or in
\* hours (not a number when fewer than two of them have a date)
accepted_mtbf(S) ==
    {Ratio(365, Cardinality(S)), Ratio(365 * 24, Cardinality(S))}
        \cup (IF Cardinality(S) < 2 THEN {}
              ELSE IF dated_count(S) < 2 THEN {NaN}
              ELSE {Ratio(span(S), dated_count(S) - 1),
                    Ratio(24 * span(S), dated_count(S) - 1)})

\* C24: every MTBF a program computes for a machine is 365.0 over the number
\* of its interventions or the mean gap between its consecutive interventions
\* in date order; calculate_mtbf_mttr gives the mean gap, only for machines
\* with at least 2 interventions, and its global value is their mean, 0 when
\* there is none.
C24_TwoMtbfDefinitions ==
    /\ apc = "calculate_mtbf" =>
           \A k \in 1..Len(mtbf_data) :
               mtbf_data[k].MTBF \in accepted_mtbf(records_of(mtbf_data[k].ID_Machine))
    /\ apc = "calculate_mtbf_mttr" =>
           /\ \A k \in 1..Len(mtbf_mttr.mtbf_df) :
                  LET S == records_of(mtbf_mttr.mtbf_df[k].Machine.s)
                  IN  /\ Cardinality(S) >= 2
                      /\ mtbf_mttr.mtbf_df[k].MTBF \in accepted_mtbf(S)
           /\ {mtbf_mttr.mtbf_df[k].Machine.s : k \in 1..Len(mtbf_mttr.mtbf_df)}
                  = {m \in machines_present : Cardinality(records_of(m)) >= 2}
           /\ mtbf_mttr.mtbf_df = <<>> => mtbf_mttr.mtbf_global = IntCell(0)

\* the sum of Nb_Interventions over the first k rows of metrics_df
RECURSIVE attributed(_)
attributed(k) == IF k = 0 THEN 0 ELSE attributed(k - 1) + metrics_df[k].Nb_Interventions

\* C26: the Nb_Interventions of the rows of calculate_metrics add up to the
\* number of records loaded, those without ID_Machine included.
C26_EveryRecordAttributed ==
    apc = "calculate_metrics" => attributed(Len(metrics_df)) = Len(interventions)

\* C27: with every filter of the v2 dashboard left at its default, the
\* filtered dataset holds exactly the records loaded, those without a fault
\* type or without a date included.
C27_DefaultFiltersKeepAll ==
    (apc = "main_filters" /\ raised = "none" /\ filters = default_filters(interventions))
        => df_filtered = interventions

\* every downtime of the frame is non-negative, and the machines have some
positive_downtime ==
    /\ \A i \in 1..Len(interventions) : interventions[i].Duree_Arret_h.n >= 0
    /\ downtime({i \in 1..Len(interventions) : ~isna(interventions[i].ID_Machine)}) > 0

in_percent_range(x) == x.num >= 0 /\ x.num <= 100 * x.den

\* C29: every availability percentage of calculate_metrics and of
\* calculate_availability lies between 0 and 100, also for a machine whose
\* cumulative downtime is above the hours of the period.
C29_AvailabilityInRange ==
    /\ apc = "calculate_metrics" =>
           \A k \in 1..Len(metrics_df) :
               /\ metrics_df[k].Taux_Disponibilite.n >= 0
               /\ metrics_df[k].Taux_Disponibilite.n <= 100 * 100
    /\ apc = "calculate_availability" =>
           \A k \in 1..Len(availability) :
               in_percent_range(availability[k].Disponibilite_pct)

\* C30: every technician with at least 2 interventions has a regularity that
\* is a number, also a technician with exactly 2 interventions.
C30_RegularityDefined ==
    apc = "analyze_technician_performance" =>
        \A k \in 1..Len(tech_stats) :
            tech_stats[k].Nb_Interventions >= 2 => ~isna(tech_stats[k].Regularite)
====
